---- MODULE Spec2Model ----
(***************************************************************************)
(* Model of metalibm's scoped symbol table and nested code buffer          *)
(* (code_object.py: SymbolTable, MultiSymbolTable, CodeObject, NestedCode) *)
(* and of the VHDL / formal code generation tables (vhdl_backend.py).      *)
(*                                                                         *)
(* Python objects are modelled by reference: every CodeObject lives in the *)
(* heap `scopes` under a fresh identifier, code_list and parent_tables are *)
(* sequences of identifiers.  A SymbolTable (a dict name -> object) is a   *)
(* sequence of <<name, object>> pairs.  Text is a sequence of tokens, each *)
(* token a tuple of strings: <<"nl">> is "\n", <<"tab">> is CodeObject.tab.*)
(***************************************************************************)
EXTENDS Integers, Sequences, FiniteSets, TLC

VARIABLES
    static_cst,            \* NestedCode.static_cst
    static_table,          \* NestedCode.static_table
    static_cst_table,      \* NestedCode.static_cst_table
    static_table_table,    \* NestedCode.static_table_table
    static_function_table, \* NestedCode.static_function_table
    scopes,                \* heap of CodeObject instances, id -> object
    code_list,             \* NestedCode.code_list, innermost first
    main_code,             \* NestedCode.main_code
    ret,                   \* outcome of the last operation
    issued,                \* per scope: the get_free_name calls it served
    tlog,                  \* per table object: the declare_table calls
    clog,                  \* per constant object: the declare_cst calls
    nsteps,               \* number of operations so far
    oplog,                 \* the declarations, writes and headers so far
    dtable,                \* dispatch: groups of the table under resolution
    dnode,                 \* dispatch: node under resolution
    dres,                  \* dispatch: result of the last resolution
    dtree,                 \* dispatch: tree returned by the last rewrite
    pc,                    \* generated scheme: position of its execution
    env                    \* generated scheme: arguments and local variables

nvars == <<static_cst, static_table, static_cst_table, static_table_table,
           static_function_table, scopes, code_list, main_code, ret, issued,
           tlog, clog, nsteps, oplog>>
dvars == <<dtable, dnode, dres, dtree>>
fvars == <<pc, env>>
vars == <<static_cst, static_table, static_cst_table, static_table_table,
          static_function_table, scopes, code_list, main_code, ret, issued,
          tlog, clog, nsteps, oplog, dtable, dnode, dres, dtree, pc, env>>

----------------------------------------------------------------------------
(* Bounds *)

\* number of open_level calls in one run
MaxScopes == 2
\* number of NestedCode operations in one run
MaxSteps == 4

\* inputs
Prefixes == {"tmp"}
\* default prefixes of declare_cst and NestedCode.declare_table
CstPrefix == "cst"
TablePrefix == "table"
AllPrefixes == Prefixes \cup {CstPrefix, TablePrefix}
CstObjects == {"K1"}
TableObjects == {"T1", "T2"}
FunctionNames == {"tmp1"}
FunctionObjects == {"F1", "F2"}
Statements == {"s"}
Comments == {"c"}
HeaderFiles == {"h1", "h2"}

None == "None"
Absent == -1

----------------------------------------------------------------------------
(* Sequence helpers *)

Range(s) == {s[i] : i \in 1..Len(s)}

IsPrefixOf(p, q) == Len(p) <= Len(q) /\ SubSeq(q, 1, Len(p)) = p

Count(s, tok) == Cardinality({i \in 1..Len(s) : s[i] = tok})

----------------------------------------------------------------------------
(* SymbolTable *)

Keys(table) == {table[i][1] : i \in 1..Len(table)}

\* SymbolTable.is_free_name
SymbolTable_is_free_name(table, name) == name \notin Keys(table)

\* SymbolTable.has_definition : identity search, first key bound to the object
SymbolTable_has_definition(table, symbol_object) ==
    LET hits == {i \in 1..Len(table) : table[i][2] = symbol_object}
    IN  IF hits = {} THEN None
        ELSE table[CHOOSE i \in hits : \A j \in hits : i <= j][1]

\* the places a new key can take in the iteration order of the dict: the
\* order of a Python 2 dict is fixed by the hashes of its keys, not by the
\* order of the insertions
Slots(table) == 1..(Len(table) + 1)

\* SymbolTable.declare_symbol : self.table[name] = symbol_object ; the table
\* is kept in the dict's iteration order, slot is the place of a new key
declare_symbol(table, name, symbol_object, slot) ==
    IF name \in Keys(table)
    THEN [i \in 1..Len(table) |->
            IF table[i][1] = name THEN <<name, symbol_object>> ELSE table[i]]
    ELSE SubSeq(table, 1, slot - 1) \o << <<name, symbol_object>> >>
         \o SubSeq(table, slot, Len(table))

\* CodeGenerator.generate_declaration(symbol, symbol_object): one line
DeclToken(name, symbol_object) == <<"decl", name, symbol_object>>

\* SymbolTable.generate_declaration : for symbol in self.table
generate_declaration(table) ==
    LET RECURSIVE gen(_)
        gen(i) == IF i > Len(table) THEN <<>>
                  ELSE <<DeclToken(table[i][1], table[i][2]), <<"nl">>>> \o gen(i + 1)
    IN  gen(1)

----------------------------------------------------------------------------
(* MultiSymbolTable: the symbol table of the CodeObject scopes[s] *)

\* variant: the constant category is never shared
constant_table_private(s) == scopes[s].constant_table

\* MultiSymbolTable.get_shared_table / NestedCode.get_cst_table
constant_table(s) == IF static_cst THEN static_cst_table ELSE scopes[s].constant_table

\* variant: the table category is shared whatever static_table says
table_table_shared(s) == static_table_table

\* MultiSymbolTable.get_shared_table / NestedCode.get_table_table
table_table(s) == IF static_table THEN static_table_table ELSE scopes[s].table_table

\* MultiSymbolTable.get_shared_table / NestedCode.get_function_table
function_table(s) == static_function_table

variable_table(s) == scopes[s].variable_table

protected_table(s) == scopes[s].protected_table

\* MultiSymbolTable.table_list
table_list(s) ==
    <<constant_table(s), function_table(s), variable_table(s),
      protected_table(s), table_table(s)>>

\* variant: the chain of parents is dropped
get_extended_dependency_table_own_only(s) == <<s>>

\* MultiSymbolTable.get_extended_dependency_table
get_extended_dependency_table(s) == scopes[s].parent_tables \o <<s>>

\* is_free_name restricted to the scope's own five tables
own_is_free_name(s, name) ==
    \A k \in 1..5 : SymbolTable_is_free_name(table_list(s)[k], name)

\* variant: parent_tables are not consulted
is_free_name_own_only(s, name) == own_is_free_name(s, name)

\* MultiSymbolTable.is_free_name
RECURSIVE is_free_name(_, _)
is_free_name(s, name) ==
    /\ own_is_free_name(s, name)
    /\ \A i \in 1..Len(scopes[s].parent_tables) :
          is_free_name(scopes[s].parent_tables[i], name)

\* MultiSymbolTable.is_empty : reduce runs over the dict table_list itself,
\* that is over its keys, the five category classes; it has no initial
\* value, so its first step applies len() to the second class, which has no
\* length
is_empty(s) == "TypeError"

\* "%s%d" % (prefix, new_index)
FormatName(prefix, new_index) == prefix \o ToString(new_index)

\* variant: no probing loop, the first suffix is returned unchecked
get_free_name_no_probe(s, prefix) ==
    IF is_free_name(s, prefix)
    THEN [name |-> prefix, index |-> 0]
    ELSE [name |-> FormatName(prefix, 0), index |-> 0]

\* variant: probing resumes at the last issued index instead of the next one
get_free_name_from_last(s, prefix) ==
    IF is_free_name(s, prefix)
    THEN [name |-> prefix, index |-> 0]
    ELSE LET start == IF scopes[s].prefix_index[prefix] # Absent
                      THEN scopes[s].prefix_index[prefix]
                      ELSE 0
             RECURSIVE probe(_)
             probe(new_index) ==
                 IF ~is_free_name(s, FormatName(prefix, new_index))
                 THEN probe(new_index + 1)
                 ELSE new_index
         IN  [name |-> FormatName(prefix, probe(start)), index |-> probe(start)]

\* MultiSymbolTable.get_free_name : [name, index] the name and the new
\* value of prefix_index[prefix]
get_free_name(s, prefix) ==
    IF is_free_name(s, prefix)
    THEN [name |-> prefix, index |-> 0]
    ELSE LET start == IF scopes[s].prefix_index[prefix] # Absent
                      THEN scopes[s].prefix_index[prefix] + 1
                      ELSE 0
             RECURSIVE probe(_)
             probe(new_index) ==
                 IF ~is_free_name(s, FormatName(prefix, new_index))
                 THEN probe(new_index + 1)
                 ELSE new_index
         IN  [name |-> FormatName(prefix, probe(start)), index |-> probe(start)]

\* variant: the search stops at the scope's own table
table_has_definition_local(s, table_object) ==
    SymbolTable_has_definition(table_table(s), table_object)

\* MultiSymbolTable.table_has_definition
RECURSIVE table_has_definition(_, _)
table_has_definition(s, table_object) ==
    LET table_key == SymbolTable_has_definition(table_table(s), table_object)
        parents == scopes[s].parent_tables
        RECURSIVE search(_)
        search(i) ==
            IF i > Len(parents) THEN None
            ELSE LET table_name == table_has_definition(parents[i], table_object)
                 IN  IF table_name # None THEN table_name ELSE search(i + 1)
    IN  IF table_key # None THEN table_key ELSE search(1)

\* MultiSymbolTable.generate_declarations ; exclusion_list is a set of indices
\* of table_list
ConstantSymbol == 1
FunctionSymbol == 2
VariableSymbol == 3
ProtectedSymbol == 4
TableSymbol == 5

\* variant: the exclusion list is ignored
generate_declarations_all(s, exclusion_list) ==
    LET RECURSIVE gen(_)
        gen(k) == IF k > 5 THEN <<>>
                  ELSE generate_declaration(table_list(s)[k]) \o gen(k + 1)
    IN  gen(1)

generate_declarations(s, exclusion_list) ==
    LET RECURSIVE gen(_)
        gen(k) == IF k > 5 THEN <<>>
                  ELSE (IF k \in exclusion_list THEN <<>>
                        ELSE generate_declaration(table_list(s)[k])) \o gen(k + 1)
    IN  gen(1)

----------------------------------------------------------------------------
(* CodeObject *)

\* CodeObject.__init__
NewCodeObject(parent_tables) ==
    [expanded_code |-> <<>>, tablevel |-> 0, header_list |-> <<>>,
     constant_table |-> <<>>, variable_table |-> <<>>,
     protected_table |-> <<>>, table_table |-> <<>>,
     parent_tables |-> parent_tables,
     prefix_index |-> [p \in AllPrefixes |-> Absent]]

Tabs(n) == [i \in 1..n |-> <<"tab">>]

\* re.sub("\n", "\n" + tablevel * tab, added_code)
Indent(added_code, tablevel) ==
    LET RECURSIVE sub(_)
        sub(i) == IF i > Len(added_code) THEN <<>>
                  ELSE (IF added_code[i] = <<"nl">>
                        THEN <<added_code[i]>> \o Tabs(tablevel)
                        ELSE <<added_code[i]>>) \o sub(i + 1)
    IN  sub(1)

\* variant: the added code is put in front of the buffer
lshift_prepend(co, added_code) ==
    [co EXCEPT !.expanded_code = Indent(added_code, co.tablevel) \o @]

\* CodeObject.__lshift__ : the code object after the insertion
lshift(co, added_code) ==
    [co EXCEPT !.expanded_code = @ \o Indent(added_code, co.tablevel)]

\* variant: the tab is written but the level is not raised
inc_level_tab_only(co) ==
    [co EXCEPT !.expanded_code = Append(@, <<"tab">>)]

\* CodeObject.inc_level
inc_level(co) ==
    [co EXCEPT !.tablevel = @ + 1, !.expanded_code = Append(@, <<"tab">>)]

\* CodeObject.dec_level
dec_level(co) ==
    [co EXCEPT !.tablevel = @ - 1,
               !.expanded_code =
                   IF Len(@) > 0 /\ @[Len(@)] = <<"tab">>
                   THEN SubSeq(@, 1, Len(@) - 1) ELSE @]

\* CodeObject.open_level
CodeObject_open_level(co) == inc_level(lshift(co, << <<"{">>, <<"nl">> >>))

\* variant: the block is closed without dec_level
CodeObject_close_level_no_dec(co) == lshift(co, << <<"}">>, <<"nl">> >>)

\* CodeObject.close_level
CodeObject_close_level(co) == lshift(dec_level(co), << <<"}">>, <<"nl">> >>)

\* CodeObject.generate_header_code
generate_header_code(s) ==
    << <<"banner">>, <<"nl">> >> \o
    [i \in 1..Len(scopes[s].header_list) |-> <<"include", scopes[s].header_list[i]>>]

\* variant: skip_function is ignored, function declarations are always emitted
CodeObject_get_keep_functions(s, cst_excluded, table_excluded, headers, skip_function) ==
    LET head == IF headers THEN generate_header_code(s) \o << <<"nl">>, <<"nl">> >>
                ELSE <<>>
        declaration_exclusion_list ==
            (IF cst_excluded THEN {ConstantSymbol} ELSE {}) \cup
            (IF table_excluded THEN {TableSymbol} ELSE {})
        result == head \o generate_declarations(s, declaration_exclusion_list)
    IN  result \o (IF result # <<>> THEN << <<"nl">> >> ELSE <<>>)
               \o scopes[s].expanded_code

\* CodeObject.get
CodeObject_get(s, cst_excluded, table_excluded, headers, skip_function) ==
    LET head == IF headers THEN generate_header_code(s) \o << <<"nl">>, <<"nl">> >>
                ELSE <<>>
        declaration_exclusion_list ==
            (IF cst_excluded THEN {ConstantSymbol} ELSE {}) \cup
            (IF table_excluded THEN {TableSymbol} ELSE {}) \cup
            (IF skip_function THEN {FunctionSymbol} ELSE {})
        result == head \o generate_declarations(s, declaration_exclusion_list)
    IN  result \o (IF result # <<>> THEN << <<"nl">> >> ELSE <<>>)
               \o scopes[s].expanded_code

\* NestedCode.get
NestedCode_get == CodeObject_get(code_list[1], FALSE, FALSE, TRUE, FALSE)

----------------------------------------------------------------------------
(* Formats, matchers and operator generators (vhdl_backend.py) *)

ML_Integer == <<"ML_Integer", 32>>
ML_Bool == <<"ML_Bool", 1>>
ML_StdLogic == <<"ML_StdLogic", 1>>
ML_Int8 == <<"ML_Int8", 8>>
ML_UInt8 == <<"ML_UInt8", 8>>
ML_Int16 == <<"ML_Int16", 16>>
ML_UInt16 == <<"ML_UInt16", 16>>
ML_Int32 == <<"ML_Int32", 32>>
ML_UInt32 == <<"ML_UInt32", 32>>
ML_Int64 == <<"ML_Int64", 64>>
ML_UInt64 == <<"ML_UInt64", 64>>
ML_Int128 == <<"ML_Int128", 128>>
ML_UInt128 == <<"ML_UInt128", 128>>
ML_Binary16 == <<"ML_Binary16", 16>>
ML_Binary32 == <<"ML_Binary32", 32>>
ML_Binary64 == <<"ML_Binary64", 64>>

\* ML_StdLogicVectorFormat(bit_size)
ML_StdLogicVectorFormat(bit_size) == <<"ML_StdLogicVectorFormat", bit_size>>

\* isinstance(format, ML_StdLogicVectorFormat)
IsStdLogicVector(format) == format[1] = "ML_StdLogicVectorFormat"

\* TCM(format_class) : the format is an instance of the class
TCM(format_class) == <<"TCM", <<format_class, 0>>>>

\* FSM(format) : the format is exactly this one
FSM(format) == <<"FSM", format>>

MCSTDLOGICV == TCM("ML_StdLogicVectorFormat")

\* type_strict_match(f0, f1, ...)
type_strict_match(formats) == [i \in 1..Len(formats) |-> FSM(formats[i])]

\* type_custom_match(m0, m1, ...)
type_custom_match(matchers) == matchers

PositionMatches(matcher, format) ==
    IF matcher[1] = "TCM" THEN format[1] = matcher[2][1] ELSE format = matcher[2]

\* a matcher applied to the (result, operands...) formats of a node
MatcherHolds(match, interface) ==
    /\ Len(match) = Len(interface)
    /\ \A i \in 1..Len(match) : PositionMatches(match[i], interface[i])

Generator(op, symbol, arity, force_folding) ==
    [op |-> op, symbol |-> symbol, arity |-> arity, force_folding |-> force_folding]

SymbolOperator(symbol, arity, force_folding) ==
    Generator("SymbolOperator", symbol, arity, force_folding)

FunctionOperator(name, arity) == Generator("FunctionOperator", name, arity, FALSE)

ComplexOperator(optree_modifier) == Generator("ComplexOperator", optree_modifier, 1, FALSE)

DynamicOperator(generator) == Generator("DynamicOperator", generator, 1, FALSE)

TemplateOperator(template, arity, force_folding) ==
    Generator("TemplateOperator", template, arity, force_folding)

\* IdentityOperator(...) : built without an arity argument
IdentityOperator == Generator("IdentityOperator", "", Absent, FALSE)

\* TemplateOperatorFormat(template) : built without an arity argument
TemplateOperatorFormat(template) ==
    Generator("TemplateOperatorFormat", template, Absent, FALSE)

\* a format given to type_custom_match as it is, without FSM
RawFormat(format) == <<"RAW", format>>

Rule(match, generator) == [match |-> match, generator |-> generator]

Group(predicate, rules) == [predicate |-> predicate, rules |-> rules]

\* build_simplified_operator_generation_nomap(formats, 2, generator):
\* one strict rule (f, f, f) per format
build_simplified_operator_generation_nomap(formats, generator) ==
    [i \in 1..Len(formats) |->
        Rule(type_strict_match(<<formats[i], formats[i], formats[i]>>), generator)]

IntegerFormats ==
    <<ML_Int8, ML_UInt8, ML_Int16, ML_UInt16, ML_Int32, ML_UInt32,
      ML_Int64, ML_UInt64, ML_Int128, ML_UInt128>>

\* variant: include_std_logic accepts every node
PredicateHolds_include_all(predicate, optree) ==
    CASE predicate = "exclude_std_logic" -> ~IsStdLogicVector(optree.precision)
      [] OTHER -> TRUE

\* exclude_std_logic / include_std_logic / lambda optree: True
PredicateHolds(predicate, optree) ==
    CASE predicate = "exclude_std_logic" -> ~IsStdLogicVector(optree.precision)
      [] predicate = "include_std_logic" -> IsStdLogicVector(optree.precision)
      [] OTHER -> TRUE

FormalRules(symbol) ==
    <<Rule(type_strict_match(<<ML_Integer, ML_Integer, ML_Integer>>),
           SymbolOperator(symbol, 2, FALSE))>>

\* variant: the formal table has no Multiplication entry
formal_generation_table_no_mult ==
    [Addition |-> [None |-> <<Group("true", FormalRules("+"))>>],
     Subtraction |-> [None |-> <<Group("true", FormalRules("-"))>>]]

formal_generation_table ==
    [Addition |-> [None |-> <<Group("true", FormalRules("+"))>>],
     Subtraction |-> [None |-> <<Group("true", FormalRules("-"))>>],
     Multiplication |-> [None |-> <<Group("true", FormalRules("*"))>>]]

VhdlAdditionVectorRules ==
    <<Rule(type_custom_match(<<MCSTDLOGICV, MCSTDLOGICV, MCSTDLOGICV>>),
           SymbolOperator("+", 2, TRUE)),
      Rule(type_custom_match(<<MCSTDLOGICV, MCSTDLOGICV, FSM(ML_StdLogic)>>),
           SymbolOperator("+", 2, TRUE)),
      Rule(type_custom_match(<<MCSTDLOGICV, FSM(ML_StdLogic), MCSTDLOGICV>>),
           SymbolOperator("+", 2, TRUE))>>

VhdlIntegerRules(symbol) ==
    build_simplified_operator_generation_nomap(IntegerFormats,
                                               SymbolOperator(symbol, 2, TRUE))

\* vhdl_comp_symbol
vhdl_comp_symbol ==
    [Equal |-> "=", NotEqual |-> "/=", Less |-> "<", LessOrEqual |-> "<=",
     GreaterOrEqual |-> ">=", Greater |-> ">", LessSigned |-> "<",
     LessOrEqualSigned |-> "<=", GreaterOrEqualSigned |-> ">=", GreaterSigned |-> ">"]

UnsignedComparisons ==
    {"Equal", "NotEqual", "Greater", "GreaterOrEqual", "Less", "LessOrEqual"}

SignedComparisons ==
    {"GreaterSigned", "GreaterOrEqualSigned", "LessSigned", "LessOrEqualSigned"}

\* the rules of Comparison for one specifier
VhdlComparisonRules(specifier) ==
    IF specifier \in UnsignedComparisons
    THEN <<Rule(type_custom_match(<<FSM(ML_Bool), FSM(ML_Binary64), FSM(ML_Binary64)>>),
                SymbolOperator(vhdl_comp_symbol[specifier], 2, FALSE)),
           Rule(type_custom_match(<<FSM(ML_Bool), FSM(ML_Binary32), FSM(ML_Binary32)>>),
                SymbolOperator(vhdl_comp_symbol[specifier], 2, FALSE)),
           Rule(type_custom_match(<<FSM(ML_Bool), FSM(ML_Binary16), FSM(ML_Binary16)>>),
                SymbolOperator(vhdl_comp_symbol[specifier], 2, FALSE)),
           Rule(type_custom_match(<<FSM(ML_Bool), MCSTDLOGICV, MCSTDLOGICV>>),
                SymbolOperator(vhdl_comp_symbol[specifier], 2, FALSE)),
           Rule(type_strict_match(<<ML_Bool, ML_StdLogic, ML_StdLogic>>),
                SymbolOperator(vhdl_comp_symbol[specifier], 2, FALSE))>>
    ELSE <<Rule(type_custom_match(<<FSM(ML_Bool), MCSTDLOGICV, MCSTDLOGICV>>),
                TemplateOperator("signed(%s) " \o vhdl_comp_symbol[specifier]
                                 \o " signed(%s)", 2, FALSE))>>

\* the rules of the bitwise operators xor, and, or
VhdlBitLogicRules(symbol) ==
    <<Rule(type_strict_match(<<ML_StdLogic, ML_StdLogic, ML_StdLogic>>),
           SymbolOperator(symbol, 2, FALSE)),
      Rule(type_custom_match(<<MCSTDLOGICV, MCSTDLOGICV, MCSTDLOGICV>>),
           SymbolOperator(symbol, 2, FALSE))>>

\* the rules of TypeCast for one floating-point format
VhdlTypeCastRules(format) ==
    <<Rule(type_custom_match(<<FSM(format), MCSTDLOGICV>>), IdentityOperator),
      Rule(type_custom_match(<<FSM(format), FSM(format)>>), IdentityOperator),
      Rule(type_custom_match(<<MCSTDLOGICV, FSM(format)>>), IdentityOperator)>>

\* the rules of SpecificOperation.CopySign
VhdlCopySignRules ==
    <<Rule(type_custom_match(<<FSM(ML_StdLogic), FSM(ML_Binary16)>>),
           TemplateOperator("%s(15)", 1, FALSE)),
      Rule(type_custom_match(<<FSM(ML_StdLogic), FSM(ML_Binary32)>>),
           TemplateOperator("%s(31)", 1, FALSE)),
      Rule(type_custom_match(<<FSM(ML_StdLogic), FSM(ML_Binary64)>>),
           TemplateOperator("%s(63)", 1, FALSE)),
      Rule(type_custom_match(<<FSM(ML_StdLogic), MCSTDLOGICV>>),
           DynamicOperator("copy_sign_generator"))>>

vhdl_code_generation_table ==
    [Addition |-> [None |->
        <<Group("exclude_std_logic", VhdlIntegerRules("+")),
          Group("include_std_logic", VhdlAdditionVectorRules)>>],
     Subtraction |-> [None |->
        <<Group("exclude_std_logic", VhdlIntegerRules("-")),
          Group("include_std_logic",
             <<Rule(type_custom_match(<<MCSTDLOGICV, MCSTDLOGICV, MCSTDLOGICV>>),
                    SymbolOperator("-", 2, TRUE))>>)>>],
     BitLogicNegate |-> [None |->
        <<Group("true",
             <<Rule(type_strict_match(<<ML_StdLogic, ML_StdLogic>>),
                    FunctionOperator("not", 1)),
               Rule(type_custom_match(<<MCSTDLOGICV, MCSTDLOGICV>>),
                    FunctionOperator("not", 1))>>)>>],
     Negation |-> [None |->
        <<Group("true",
             <<Rule(type_custom_match(<<MCSTDLOGICV, MCSTDLOGICV>>),
                    ComplexOperator("negation_modifer"))>>)>>],
     LogicalAnd |-> [None |->
        <<Group("true",
             <<Rule(type_strict_match(<<ML_Bool, ML_Bool, ML_Bool>>),
                    SymbolOperator("and", 2, TRUE))>>)>>],
     Event |-> [None |->
        <<Group("true",
             <<Rule(type_strict_match(<<ML_Bool, ML_StdLogic>>),
                    SymbolOperator("'event", 1, TRUE))>>)>>],
     Comparison |->
        [specifier \in UnsignedComparisons \cup SignedComparisons |->
            <<Group("true", VhdlComparisonRules(specifier))>>],
     ExponentExtraction |-> [None |->
        <<Group("true",
             <<Rule(type_custom_match(<<MCSTDLOGICV, FSM(ML_Binary64)>>),
                    SymbolOperator("(62 downto 52)", 1, TRUE)),
               Rule(type_custom_match(<<MCSTDLOGICV, FSM(ML_Binary32)>>),
                    SymbolOperator("(30 downto 23)", 1, TRUE)),
               Rule(type_custom_match(<<MCSTDLOGICV, FSM(ML_Binary16)>>),
                    SymbolOperator("(14 downto 10)", 1, TRUE))>>)>>],
     ZeroExt |-> [None |->
        <<Group("true",
             <<Rule(type_custom_match(<<MCSTDLOGICV, MCSTDLOGICV>>),
                    ComplexOperator("zext_modifier"))>>)>>],
     Concatenation |-> [None |->
        <<Group("true",
             <<Rule(type_custom_match(<<MCSTDLOGICV, MCSTDLOGICV, MCSTDLOGICV>>),
                    SymbolOperator("&", 2, FALSE)),
               Rule(type_custom_match(<<MCSTDLOGICV, FSM(ML_StdLogic), MCSTDLOGICV>>),
                    SymbolOperator("&", 2, FALSE)),
               Rule(type_custom_match(<<MCSTDLOGICV, MCSTDLOGICV, FSM(ML_StdLogic)>>),
                    SymbolOperator("&", 2, FALSE))>>)>>],
     VectorElementSelection |-> [None |->
        <<Group("true",
             <<Rule(type_custom_match(<<FSM(ML_StdLogic), MCSTDLOGICV, FSM(ML_Integer)>>),
                    TemplateOperator("%s(%s)", 2, FALSE))>>)>>],
     Replication |-> [None |->
        <<Group("true",
             <<Rule(type_custom_match(<<FSM(ML_StdLogic), FSM(ML_StdLogic)>>),
                    IdentityOperator),
               Rule(type_custom_match(<<MCSTDLOGICV, FSM(ML_StdLogic), FSM(ML_Integer)>>),
                    TemplateOperatorFormat("({1!d} - 1 downto 0 => {0:s}"))>>)>>],
     Conversion |-> [None |->
        <<Group("true",
             <<Rule(type_custom_match(<<MCSTDLOGICV, FSM(ML_Integer)>>),
                    DynamicOperator("conversion_generator"))>>)>>],
     MantissaExtraction |-> [None |->
        <<Group("true",
             <<Rule(type_custom_match(<<MCSTDLOGICV, FSM(ML_Binary16)>>),
                    ComplexOperator("mantissa_extraction_modifier")),
               Rule(type_custom_match(<<MCSTDLOGICV, FSM(ML_Binary32)>>),
                    ComplexOperator("mantissa_extraction_modifier")),
               Rule(type_custom_match(<<MCSTDLOGICV, FSM(ML_Binary64)>>),
                    ComplexOperator("mantissa_extraction_modifier"))>>)>>],
     CopySign |-> [None |->
        <<Group("true",
             <<Rule(type_custom_match(<<FSM(ML_StdLogic), RawFormat(ML_Binary16)>>),
                    TemplateOperator("%s(15)", 1, FALSE)),
               Rule(type_custom_match(<<FSM(ML_StdLogic), RawFormat(ML_Binary32)>>),
                    TemplateOperator("%s(31)", 1, FALSE)),
               Rule(type_custom_match(<<FSM(ML_StdLogic), RawFormat(ML_Binary64)>>),
                    TemplateOperator("%s(63)", 1, FALSE)),
               Rule(type_custom_match(<<FSM(ML_StdLogic), MCSTDLOGICV>>),
                    DynamicOperator("copy_sign_generator"))>>)>>],
     BitLogicXor |-> [None |-> <<Group("true", VhdlBitLogicRules("xor"))>>],
     BitLogicAnd |-> [None |-> <<Group("true", VhdlBitLogicRules("and"))>>],
     BitLogicOr |-> [None |-> <<Group("true", VhdlBitLogicRules("or"))>>],
     Truncate |-> [None |->
        <<Group("true",
             <<Rule(type_custom_match(<<MCSTDLOGICV, MCSTDLOGICV, MCSTDLOGICV>>),
                    DynamicOperator("truncate_generator"))>>)>>],
     SignCast |->
        [Signed |->
            <<Group("true",
                 <<Rule(type_custom_match(<<MCSTDLOGICV, MCSTDLOGICV>>),
                        FunctionOperator("signed", 1))>>)>>,
         Unsigned |->
            <<Group("true",
                 <<Rule(type_custom_match(<<MCSTDLOGICV, MCSTDLOGICV>>),
                        FunctionOperator("unsigned", 1))>>)>>],
     TypeCast |-> [None |->
        <<Group("true", VhdlTypeCastRules(ML_Binary16) \o VhdlTypeCastRules(ML_Binary32)
                        \o VhdlTypeCastRules(ML_Binary64))>>],
     BitLogicRightShift |-> [None |->
        <<Group("true",
             <<Rule(type_custom_match(<<MCSTDLOGICV, MCSTDLOGICV, MCSTDLOGICV>>),
                    TemplateOperator("std_logic_vector(shift_right(unsigned(%s), to_integer(unsigned(%s))))", 2, TRUE))>>)>>],
     BitLogicLeftShift |-> [None |->
        <<Group("true",
             <<Rule(type_custom_match(<<MCSTDLOGICV, MCSTDLOGICV, MCSTDLOGICV>>),
                    TemplateOperator("std_logic_vector(shift_left(unsigned(%s), to_integer(unsigned(%s))))", 2, TRUE))>>)>>],
     CountLeadingZeros |-> [None |->
        <<Group("true",
             <<Rule(type_custom_match(<<MCSTDLOGICV, MCSTDLOGICV>>),
                    FunctionOperator("count_leading_zeros", 1))>>)>>],
     SpecificOperation |-> [CopySign |-> <<Group("true", VhdlCopySignRules)>>],
     SubSignalSelection |-> [None |->
        <<Group("true",
             <<Rule(type_custom_match(<<MCSTDLOGICV, MCSTDLOGICV>>),
                    DynamicOperator("sub_signal_generator"))>>)>>]]

EmptyTable == [kind \in {} |-> <<>>]

\* FormalBackend.code_generation_table
FormalBackend_code_generation_table ==
    [VHDL_Code |-> formal_generation_table,
     C_Code |-> formal_generation_table,
     Gappa_Code |-> EmptyTable]

\* VHDLBackend.code_generation_table
VHDLBackend_code_generation_table ==
    [VHDL_Code |-> vhdl_code_generation_table,
     Gappa_Code |-> EmptyTable]

Backends == {"FormalBackend", "VHDLBackend"}
Languages == {"VHDL_Code", "C_Code", "Gappa_Code"}

code_generation_table(backend) ==
    IF backend = "VHDLBackend" THEN VHDLBackend_code_generation_table
    ELSE FormalBackend_code_generation_table

\* class VHDLBackend(FormalBackend), class FormalBackend(AbstractBackend)
ParentBackend(backend) ==
    IF backend = "VHDLBackend" THEN "FormalBackend" ELSE "AbstractBackend"

----------------------------------------------------------------------------
(* Operation nodes and resolution *)

Node(kind, specifier, precision, inputs, attr) ==
    [kind |-> kind, specifier |-> specifier, precision |-> precision,
     inputs |-> inputs, tag |-> "r", attr |-> attr]

Variable(precision) == Node("Variable", None, precision, <<>>, 0)

Constant(value, precision) == Node("Constant", None, precision, <<>>, value)

NullNode == Node("none", None, ML_Integer, <<>>, 0)

\* (result format, operand formats...)
Interface(optree) ==
    <<optree.precision>> \o [i \in 1..Len(optree.inputs) |-> optree.inputs[i].precision]

NoGenerator == Generator("none", "", 0, FALSE)

NoMatchingRule == [status |-> "NoMatchingRule", generator |-> NoGenerator]

Resolved(generator) == [status |-> "ok", generator |-> generator]

\* the first rule of the list whose matcher holds
FirstMatch(rules, optree) ==
    LET hits == {i \in 1..Len(rules) : MatcherHolds(rules[i].match, Interface(optree))}
    IN  IF hits = {} THEN NoMatchingRule
        ELSE Resolved(rules[CHOOSE i \in hits : \A j \in hits : i <= j].generator)

\* variant: when the selected group has no matching rule the later groups
\* are tried
ResolveGroups_fallthrough(groups, optree) ==
    LET hits == {i \in 1..Len(groups) :
                    /\ PredicateHolds(groups[i].predicate, optree)
                    /\ FirstMatch(groups[i].rules, optree) # NoMatchingRule}
    IN  IF hits = {} THEN NoMatchingRule
        ELSE FirstMatch(groups[CHOOSE i \in hits : \A j \in hits : i <= j].rules, optree)

\* two-level resolution inside one kind/specifier entry: the first group
\* whose applicability predicate holds is selected, then its first matching
\* rule; no later group is tried
ResolveGroups(groups, optree) ==
    LET hits == {i \in 1..Len(groups) : PredicateHolds(groups[i].predicate, optree)}
    IN  IF hits = {} THEN NoMatchingRule
        ELSE FirstMatch(groups[CHOOSE i \in hits : \A j \in hits : i <= j].rules, optree)

\* the table has an entry for the node's kind and specifier
HasEntry(table, optree) ==
    /\ optree.kind \in DOMAIN table
    /\ optree.specifier \in DOMAIN table[optree.kind]

\* resolve(node) against one table
get_implementation(table, optree) ==
    IF HasEntry(table, optree)
    THEN ResolveGroups(table[optree.kind][optree.specifier], optree)
    ELSE NoMatchingRule

\* the backend's own table has the requested entry
HasOwnEntry(backend, language, optree) ==
    /\ language \in DOMAIN code_generation_table(backend)
    /\ HasEntry(code_generation_table(backend)[language], optree)

\* resolution against a backend: its own entry if present, else the entry of
\* the backend it specializes
RECURSIVE get_recursive_implementation(_, _, _)
get_recursive_implementation(backend, language, optree) ==
    IF backend = "AbstractBackend" THEN NoMatchingRule
    ELSE IF HasOwnEntry(backend, language, optree)
    THEN get_implementation(code_generation_table(backend)[language], optree)
    ELSE get_recursive_implementation(ParentBackend(backend), language, optree)

----------------------------------------------------------------------------
(* Resolution runs: the inputs of resolve *)

\* widths of the bit vectors used as inputs
MaxWidth == 2

VectorFormats == {ML_StdLogicVectorFormat(w) : w \in 1..MaxWidth}

InputFormats == {ML_Integer, ML_Int32, ML_StdLogic} \cup VectorFormats

Kinds == {"Addition", "Multiplication", "Negation", "Conversion"}

\* nodes with one or two variable operands
InputNodes ==
    {Node(k, None, p, <<Variable(a)>>, 0) :
        k \in {"Negation"}, p \in VectorFormats \cup {ML_StdLogic},
        a \in VectorFormats \cup {ML_StdLogic}}
    \cup
    {Node(k, None, p, <<Variable(a), Variable(b)>>, 0) :
        k \in Kinds \ {"Negation"}, p \in InputFormats,
        a \in InputFormats, b \in InputFormats}

\* group lists assembled from the predicates and rule lists of the tables
InputGroups ==
    {Group(p, r) : p \in {"true", "exclude_std_logic", "include_std_logic"},
                   r \in {FormalRules("+"), VhdlIntegerRules("+"), VhdlAdditionVectorRules}}

InputGroupLists ==
    {<<g>> : g \in InputGroups} \cup {<<g, h>> : g \in InputGroups, h \in InputGroups}

\* the dispatch result before any resolution
NoResult == [target |-> "none", language |-> None, result |-> NoMatchingRule]

----------------------------------------------------------------------------
(* NestedCode operations *)

\* no generated scheme is running
NoEnv == [none |-> 0]

NoScheme == pc = "none" /\ env = NoEnv

\* NestedCode.__init__ after its flags are set
InitNestedCode ==
    /\ static_cst_table = <<>>
    /\ static_table_table = <<>>
    /\ static_function_table = <<>>
    /\ scopes = <<NewCodeObject(<<>>)>>
    /\ code_list = <<1>>
    /\ main_code = 1
    /\ ret = [op |-> "init", value |-> None]
    /\ issued = << <<>> >>
    /\ tlog = [t \in TableObjects |-> <<>>]
    /\ clog = [c \in CstObjects |-> <<>>]
    /\ nsteps = 0
    /\ oplog = <<>>

\* NestedCode.__init__
Init ==
    /\ static_cst \in BOOLEAN
    /\ static_table \in BOOLEAN
    /\ InitNestedCode
    /\ dtable = <<>>
    /\ dnode = NullNode
    /\ dres = NoResult
    /\ dtree = NullNode
    /\ NoScheme

\* one entry of oplog
LogEntry(op, cat, name, obj, s) ==
    [op |-> op, cat |-> cat, name |-> name, obj |-> obj, scope |-> s]

\* NestedCode.get_free_var_name -> CodeObject.get_free_var_name
GetFreeVarName(prefix, declare) ==
    /\ Len(code_list) > 0
    /\ nsteps < MaxSteps
    /\ LET s == code_list[1]
           free == get_free_name(s, prefix)
           indexed == [scopes EXCEPT ![s].prefix_index[prefix] = free.index]
       IN  /\ \E slot \in (IF declare THEN Slots(variable_table(s)) ELSE {1}) :
                 scopes' = IF declare
                           THEN [indexed EXCEPT ![s].variable_table =
                                    declare_symbol(@, free.name, "Variable", slot)]
                           ELSE indexed
           /\ ret' = [op |-> "get_free_var_name", value |-> free.name]
           /\ issued' = [issued EXCEPT ![s] =
                  Append(@, [prefix |-> prefix, name |-> free.name, declared |-> declare])]
           /\ oplog' = IF declare
                     THEN Append(oplog, LogEntry("declare", VariableSymbol, free.name,
                                               "Variable", s))
                     ELSE oplog
    /\ UNCHANGED <<static_cst, static_table, static_cst_table, static_table_table,
                   static_function_table, code_list, main_code, tlog, clog>>
    /\ nsteps' = nsteps + 1
    /\ UNCHANGED <<dvars, fvars>>

\* NestedCode.declare_cst -> CodeObject.declare_cst
DeclareCst(cst_object, prefix) ==
    /\ Len(code_list) > 0
    /\ nsteps < MaxSteps
    /\ LET s == code_list[1]
           free == get_free_name(s, prefix)
           indexed == [scopes EXCEPT ![s].prefix_index[prefix] = free.index]
       IN  /\ \E slot \in Slots(constant_table(s)) :
                 /\ scopes' = IF static_cst THEN indexed
                              ELSE [indexed EXCEPT ![s].constant_table =
                                       declare_symbol(@, free.name, cst_object, slot)]
                 /\ static_cst_table' =
                        IF static_cst
                        THEN declare_symbol(static_cst_table, free.name, cst_object, slot)
                        ELSE static_cst_table
           /\ ret' = [op |-> "declare_cst", value |-> free.name]
           /\ issued' = [issued EXCEPT ![s] =
                  Append(@, [prefix |-> prefix, name |-> free.name, declared |-> TRUE])]
           /\ clog' = [clog EXCEPT ![cst_object] =
                  Append(@, [scope |-> s, name |-> free.name])]
           /\ oplog' = Append(oplog, LogEntry("declare", ConstantSymbol, free.name,
                                          cst_object, s))
    /\ UNCHANGED <<static_cst, static_table, static_table_table,
                   static_function_table, code_list, main_code, tlog>>
    /\ nsteps' = nsteps + 1
    /\ UNCHANGED <<dvars, fvars>>

\* NestedCode.declare_table -> CodeObject.declare_table
DeclareTable(table_object, prefix) ==
    /\ Len(code_list) > 0
    /\ nsteps < MaxSteps
    /\ LET s == code_list[1]
           table_name == table_has_definition(s, table_object)
           free == get_free_name(s, prefix)
           indexed == [scopes EXCEPT ![s].prefix_index[prefix] = free.index]
       IN  IF table_name # None
           THEN /\ ret' = [op |-> "declare_table", value |-> table_name]
                /\ tlog' = [tlog EXCEPT ![table_object] =
                       Append(@, [scope |-> s, name |-> table_name, fresh |-> FALSE])]
                /\ UNCHANGED <<scopes, static_table_table, issued, oplog>>
           ELSE /\ \E slot \in Slots(table_table(s)) :
                      /\ scopes' = IF static_table THEN indexed
                                   ELSE [indexed EXCEPT ![s].table_table =
                                            declare_symbol(@, free.name, table_object, slot)]
                      /\ static_table_table' =
                             IF static_table
                             THEN declare_symbol(static_table_table, free.name,
                                                 table_object, slot)
                             ELSE static_table_table
                /\ ret' = [op |-> "declare_table", value |-> free.name]
                /\ issued' = [issued EXCEPT ![s] =
                       Append(@, [prefix |-> prefix, name |-> free.name, declared |-> TRUE])]
                /\ tlog' = [tlog EXCEPT ![table_object] =
                       Append(@, [scope |-> s, name |-> free.name, fresh |-> TRUE])]
                /\ oplog' = Append(oplog, LogEntry("declare", TableSymbol, free.name,
                                               table_object, s))
    /\ UNCHANGED <<static_cst, static_table, static_cst_table,
                   static_function_table, code_list, main_code, clog>>
    /\ nsteps' = nsteps + 1
    /\ UNCHANGED <<dvars, fvars>>

\* NestedCode.declare_function -> CodeObject.declare_function
DeclareFunction(function_name, function_object) ==
    /\ Len(code_list) > 0
    /\ nsteps < MaxSteps
    /\ \E slot \in (IF function_name \in Keys(static_function_table) THEN {1}
                    ELSE Slots(static_function_table)) :
          static_function_table' =
              declare_symbol(static_function_table, function_name, function_object, slot)
    /\ ret' = [op |-> "declare_function", value |-> function_name]
    /\ oplog' = Append(oplog, LogEntry("declare", FunctionSymbol, function_name,
                                   function_object, code_list[1]))
    /\ UNCHANGED <<static_cst, static_table, static_cst_table, static_table_table,
                   scopes, code_list, main_code, issued, tlog, clog>>
    /\ nsteps' = nsteps + 1
    /\ UNCHANGED <<dvars, fvars>>

\* variant: the statement goes to the main scope
Write_to_main(stmt) ==
    /\ Len(code_list) > 0
    /\ nsteps < MaxSteps
    /\ scopes' = [scopes EXCEPT ![main_code] = lshift(@, << <<"stmt", stmt>>, <<"nl">> >>)]
    /\ ret' = [op |-> "write", value |-> None]
    /\ oplog' = Append(oplog, LogEntry("write", 0, stmt, "stmt", code_list[1]))
    /\ UNCHANGED <<static_cst, static_table, static_cst_table, static_table_table,
                   static_function_table, code_list, main_code, issued, tlog, clog>>
    /\ nsteps' = nsteps + 1
    /\ UNCHANGED <<dvars, fvars>>

\* NestedCode.__lshift__
Write(stmt) ==
    /\ Len(code_list) > 0
    /\ nsteps < MaxSteps
    /\ scopes' = [scopes EXCEPT ![code_list[1]] = lshift(@, << <<"stmt", stmt>>, <<"nl">> >>)]
    /\ ret' = [op |-> "write", value |-> None]
    /\ oplog' = Append(oplog, LogEntry("write", 0, stmt, "stmt", code_list[1]))
    /\ UNCHANGED <<static_cst, static_table, static_cst_table, static_table_table,
                   static_function_table, code_list, main_code, issued, tlog, clog>>
    /\ nsteps' = nsteps + 1
    /\ UNCHANGED <<dvars, fvars>>

\* NestedCode.add_comment -> CodeObject.add_comment : self << "/* %s */\n"
AddComment(comment) ==
    /\ Len(code_list) > 0
    /\ nsteps < MaxSteps
    /\ scopes' = [scopes EXCEPT ![code_list[1]] =
                     lshift(@, << <<"comment", comment>>, <<"nl">> >>)]
    /\ ret' = [op |-> "add_comment", value |-> None]
    /\ oplog' = Append(oplog, LogEntry("write", 0, comment, "comment", code_list[1]))
    /\ UNCHANGED <<static_cst, static_table, static_cst_table, static_table_table,
                   static_function_table, code_list, main_code, issued, tlog, clog>>
    /\ nsteps' = nsteps + 1
    /\ UNCHANGED <<dvars, fvars>>

\* variant: the header goes to the innermost scope
AddHeader_innermost(header_file) ==
    /\ Len(code_list) > 0
    /\ nsteps < MaxSteps
    /\ scopes' = [scopes EXCEPT ![code_list[1]].header_list =
                     IF header_file \in Range(@) THEN @ ELSE Append(@, header_file)]
    /\ ret' = [op |-> "add_header", value |-> None]
    /\ oplog' = Append(oplog, LogEntry("add_header", 0, header_file, "header", code_list[1]))
    /\ UNCHANGED <<static_cst, static_table, static_cst_table, static_table_table,
                   static_function_table, code_list, main_code, issued, tlog, clog>>
    /\ nsteps' = nsteps + 1
    /\ UNCHANGED <<dvars, fvars>>

\* NestedCode.add_header -> main_code.add_header
AddHeader(header_file) ==
    /\ Len(code_list) > 0
    /\ nsteps < MaxSteps
    /\ scopes' = [scopes EXCEPT ![main_code].header_list =
                     IF header_file \in Range(@) THEN @ ELSE Append(@, header_file)]
    /\ ret' = [op |-> "add_header", value |-> None]
    /\ oplog' = Append(oplog, LogEntry("add_header", 0, header_file, "header", code_list[1]))
    /\ UNCHANGED <<static_cst, static_table, static_cst_table, static_table_table,
                   static_function_table, code_list, main_code, issued, tlog, clog>>
    /\ nsteps' = nsteps + 1
    /\ UNCHANGED <<dvars, fvars>>

\* NestedCode.open_level
OpenLevel ==
    /\ Len(code_list) > 0
    /\ nsteps < MaxSteps
    /\ Len(scopes) < MaxScopes + 1
    /\ LET s == code_list[1]
           new == Len(scopes) + 1
           parent_tables == get_extended_dependency_table(s)
       IN  /\ scopes' = Append([scopes EXCEPT ![s] = CodeObject_open_level(@)],
                               NewCodeObject(parent_tables))
           /\ code_list' = <<new>> \o code_list
           /\ issued' = Append(issued, <<>>)
    /\ ret' = [op |-> "open_level", value |-> None]
    /\ UNCHANGED <<static_cst, static_table, static_cst_table, static_table_table,
                   static_function_table, main_code, tlog, clog, oplog>>
    /\ nsteps' = nsteps + 1
    /\ UNCHANGED <<dvars, fvars>>

\* NestedCode.close_level with a nested level open
CloseLevel ==
    /\ Len(code_list) > 1
    /\ nsteps < MaxSteps
    /\ LET level_code == code_list[1]
           s == code_list[2]
           text == CodeObject_get(level_code, static_cst, static_table, FALSE, TRUE)
       IN  /\ code_list' = Tail(code_list)
           /\ scopes' = [scopes EXCEPT ![s] = CodeObject_close_level(lshift(@, text))]
    /\ ret' = [op |-> "close_level", value |-> None]
    /\ UNCHANGED <<static_cst, static_table, static_cst_table, static_table_table,
                   static_function_table, main_code, issued, tlog, clog, oplog>>
    /\ nsteps' = nsteps + 1
    /\ UNCHANGED <<dvars, fvars>>

\* NestedCode.close_level with only the main scope on the stack: pop(0)
\* empties code_list, then self.code_list[0] raises IndexError
CloseLevelMain ==
    /\ Len(code_list) = 1
    /\ nsteps < MaxSteps
    /\ code_list' = Tail(code_list)
    /\ ret' = [op |-> "close_level", value |-> "IndexError"]
    /\ UNCHANGED <<static_cst, static_table, static_cst_table, static_table_table,
                   static_function_table, scopes, main_code, issued, tlog, clog, oplog>>
    /\ nsteps' = nsteps + 1
    /\ UNCHANGED <<dvars, fvars>>

Next ==
    \/ \E prefix \in Prefixes, declare \in BOOLEAN : GetFreeVarName(prefix, declare)
    \/ \E c \in CstObjects : DeclareCst(c, CstPrefix)
    \/ \E t \in TableObjects : DeclareTable(t, TablePrefix)
    \/ \E f \in FunctionNames, o \in FunctionObjects : DeclareFunction(f, o)
    \/ \E stmt \in Statements : Write(stmt)
    \/ \E comment \in Comments : AddComment(comment)
    \/ OpenLevel
    \/ CloseLevel
    \/ CloseLevelMain

Spec == Init /\ [][Next]_vars

\* MultiSymbolTable.is_empty on the symbol table of the innermost scope
IsEmpty ==
    /\ Len(code_list) > 0
    /\ nsteps < MaxSteps
    /\ ret' = [op |-> "is_empty", value |-> is_empty(code_list[1])]
    /\ UNCHANGED <<static_cst, static_table, static_cst_table, static_table_table,
                   static_function_table, scopes, code_list, main_code, issued,
                   tlog, clog, oplog>>
    /\ nsteps' = nsteps + 1
    /\ UNCHANGED <<dvars, fvars>>

\* declarations, levels and emptiness queries
NextQuery ==
    \/ \E prefix \in Prefixes, declare \in BOOLEAN : GetFreeVarName(prefix, declare)
    \/ \E c \in CstObjects : DeclareCst(c, CstPrefix)
    \/ \E t \in TableObjects : DeclareTable(t, TablePrefix)
    \/ \E f \in FunctionNames, o \in FunctionObjects : DeclareFunction(f, o)
    \/ OpenLevel
    \/ IsEmpty

SpecQuery == Init /\ [][NextQuery]_vars

\* the operations of a caller that collects headers while it writes nested
\* blocks
NextHeader ==
    \/ \E header_file \in HeaderFiles : AddHeader(header_file)
    \/ \E stmt \in Statements : Write(stmt)
    \/ OpenLevel
    \/ CloseLevel

SpecHeader == Init /\ [][NextHeader]_vars

----------------------------------------------------------------------------
(* Resolution actions *)

\* resolve(node) against one kind/specifier entry
Resolve ==
    /\ dres.target = "none"
    /\ dres' = [target |-> "table", language |-> None,
                result |-> ResolveGroups(dtable, dnode)]
    /\ UNCHANGED <<dtable, dnode, dtree, fvars>>
    /\ UNCHANGED nvars

\* resolve(node) against a backend and a language
ResolveBackend(backend, language) ==
    /\ dres.target = "none"
    /\ dres' = [target |-> backend, language |-> language,
                result |-> get_recursive_implementation(backend, language, dnode)]
    /\ UNCHANGED <<dtable, dnode, dtree, fvars>>
    /\ UNCHANGED nvars

\* NestedCode.__init__ with its default arguments, and the inputs of resolve
InitDispatch ==
    /\ static_cst = FALSE
    /\ static_table = TRUE
    /\ InitNestedCode
    /\ dtable \in InputGroupLists
    /\ dnode \in InputNodes
    /\ dres = NoResult
    /\ dtree = NullNode
    /\ NoScheme

NextDispatch ==
    \/ Resolve
    \/ \E backend \in Backends, language \in Languages :
           ResolveBackend(backend, language)

SpecDispatch == InitDispatch /\ [][NextDispatch]_vars

----------------------------------------------------------------------------
(* Rendering a node into the current scope *)

\* variant: the bitwise complement alone, nothing added
negation_modifer_add_zero(optree) ==
    [kind |-> "Addition", specifier |-> None, precision |-> optree.precision,
     inputs |-> <<Node("BitLogicNegate", None, optree.precision, <<optree.inputs[1]>>, 0),
                  Constant(0, ML_StdLogic)>>,
     tag |-> optree.tag, attr |-> 0]

\* negation_modifer
negation_modifer(optree) ==
    [kind |-> "Addition", specifier |-> None, precision |-> optree.precision,
     inputs |-> <<Node("BitLogicNegate", None, optree.precision, <<optree.inputs[1]>>, 0),
                  Constant(1, ML_StdLogic)>>,
     tag |-> optree.tag, attr |-> 0]

Rendered(status, text, fold) == [status |-> status, text |-> text, fold |-> fold]

\* resolution of the node, then the generator's rendering of it; operands
\* are rendered by re-entering the resolution
RECURSIVE generate_expr(_)
generate_expr(optree) ==
    IF optree.kind = "Variable" THEN Rendered("ok", "x", FALSE)
    ELSE IF optree.kind = "Constant" THEN Rendered("ok", ToString(optree.attr), FALSE)
    ELSE
    LET implementation == get_recursive_implementation("VHDLBackend", "VHDL_Code", optree)
        generator == implementation.generator
        operands == [i \in 1..Len(optree.inputs) |-> generate_expr(optree.inputs[i])]
        failed == {i \in 1..Len(operands) : operands[i].status # "ok"}
    IN  IF implementation.status # "ok" THEN Rendered("NoMatchingRule", "", FALSE)
        ELSE IF generator.op = "ComplexOperator" /\ generator.symbol = "negation_modifer"
        THEN generate_expr(negation_modifer(optree))
        ELSE IF generator.op \notin {"SymbolOperator", "FunctionOperator"}
        THEN Rendered("Unsupported", "", FALSE)
        ELSE IF Len(optree.inputs) # generator.arity THEN Rendered("MalformedNode", "", FALSE)
        ELSE IF failed # {}
        THEN operands[CHOOSE i \in failed : \A j \in failed : i <= j]
        ELSE IF generator.op = "FunctionOperator"
        THEN Rendered("ok", generator.symbol \o "(" \o operands[1].text \o ")",
                      generator.force_folding)
        ELSE Rendered("ok", "(" \o operands[1].text \o " " \o generator.symbol \o " "
                            \o operands[2].text \o ")", generator.force_folding)

\* the nodes handed to the renderer
RenderNodes ==
    {Node("Addition", None, ML_StdLogicVectorFormat(2),
          <<Variable(ML_StdLogicVectorFormat(2)), Variable(ML_StdLogicVectorFormat(2))>>, 0),
     Node("Addition", None, ML_Int32,
          <<Variable(ML_StdLogicVectorFormat(2)), Variable(ML_StdLogicVectorFormat(2))>>, 0),
     Node("Negation", None, ML_StdLogicVectorFormat(2),
          <<Variable(ML_StdLogicVectorFormat(2))>>, 0),
     Node("Negation", None, ML_StdLogic, <<Variable(ML_StdLogic)>>, 0),
     Node("Multiplication", None, ML_Integer,
          <<Variable(ML_Integer), Variable(ML_Integer)>>, 0)}

\* the scopes heap after writing the rendered node into scope s
WriteRendered(s, rendered, slot) ==
    IF rendered.fold
    THEN LET free == get_free_name(s, "tmp")
         IN  [scopes EXCEPT
                ![s] = lshift([@ EXCEPT !.prefix_index["tmp"] = free.index,
                                        !.variable_table =
                                            declare_symbol(@, free.name, "Variable", slot)],
                              << <<"assign", free.name, rendered.text>>, <<"nl">> >>)]
    ELSE [scopes EXCEPT ![s] = lshift(@, << <<"stmt", rendered.text>>, <<"nl">> >>)]

\* variant: the result variable is declared and the statement opened before
\* the node is resolved
Render_eager(optree) ==
    /\ Len(code_list) > 0
    /\ nsteps < MaxSteps
    /\ \E slot \in Slots(variable_table(code_list[1])) :
          scopes' = WriteRendered(code_list[1], Rendered("ok", "", TRUE), slot)
    /\ ret' = [op |-> "render", value |-> generate_expr(optree).status]
    /\ dnode' = optree
    /\ nsteps' = nsteps + 1
    /\ UNCHANGED <<static_cst, static_table, static_cst_table, static_table_table,
                   static_function_table, code_list, main_code, issued, tlog, clog,
                   oplog, dtable, dres, dtree, fvars>>

\* the driver renders one node: resolve, render, write the result
Render(optree) ==
    /\ Len(code_list) > 0
    /\ nsteps < MaxSteps
    /\ LET rendered == generate_expr(optree)
       IN  /\ \E slot \in (IF rendered.status = "ok" /\ rendered.fold
                          THEN Slots(variable_table(code_list[1])) ELSE {1}) :
                 scopes' = IF rendered.status = "ok"
                           THEN WriteRendered(code_list[1], rendered, slot)
                           ELSE scopes
           /\ ret' = [op |-> "render", value |-> rendered.status]
    /\ dnode' = optree
    /\ nsteps' = nsteps + 1
    /\ UNCHANGED <<static_cst, static_table, static_cst_table, static_table_table,
                   static_function_table, code_list, main_code, issued, tlog, clog,
                   oplog, dtable, dres, dtree, fvars>>

\* NestedCode.__init__ with its default arguments
InitRender ==
    /\ static_cst = FALSE
    /\ static_table = TRUE
    /\ InitNestedCode
    /\ dtable = <<>>
    /\ dnode = NullNode
    /\ dres = NoResult
    /\ dtree = NullNode
    /\ NoScheme

NextRender ==
    \/ \E optree \in RenderNodes : Render(optree)
    \/ OpenLevel
    \/ CloseLevel

SpecRender == InitRender /\ [][NextRender]_vars

----------------------------------------------------------------------------
(* Generators built at rendering time (vhdl_backend.py) *)

\* format.get_bit_size()
get_bit_size(format) == format[2]

\* inf_index and sup_index of a SubSignalSelection node, kept in attr
IndexBase == 128
SubSignalIndices(inf_index, sup_index) == inf_index * IndexBase + sup_index
get_inf_index(optree) == optree.attr \div IndexBase
get_sup_index(optree) == optree.attr % IndexBase

\* truncate_generator
truncate_generator(optree) ==
    LET result_size == get_bit_size(optree.precision)
    IN  TemplateOperator("%s(" \o ToString(result_size - 1) \o " downto 0)", 1, FALSE)

\* conversion_generator
conversion_generator(optree) ==
    LET output_size == get_bit_size(optree.precision)
    IN  TemplateOperator("std_logic_vector(to_unsigned(%s, " \o ToString(output_size)
                         \o "))", 1, FALSE)

\* copy_sign_generator
copy_sign_generator(optree) ==
    LET sign_input == optree.inputs[1]
        sign_index == get_bit_size(sign_input.precision) - 1
    IN  TemplateOperator("%s(" \o ToString(sign_index) \o ")", 1, FALSE)

\* sub_signal_generator
sub_signal_generator(optree) ==
    TemplateOperator("%s(" \o ToString(get_sup_index(optree)) \o " downto "
                     \o ToString(get_inf_index(optree)) \o ")", 1, TRUE)

\* DynamicOperator: the generator its function builds for the node
DynamicGenerate(generator, optree) ==
    CASE generator.symbol = "truncate_generator" -> truncate_generator(optree)
      [] generator.symbol = "conversion_generator" -> conversion_generator(optree)
      [] generator.symbol = "copy_sign_generator" -> copy_sign_generator(optree)
      [] generator.symbol = "sub_signal_generator" -> sub_signal_generator(optree)

\* the generator that renders the node: the resolved one, or the one a
\* DynamicOperator builds
LeafGenerator(generator, optree) ==
    IF generator.op = "DynamicOperator" THEN DynamicGenerate(generator, optree)
    ELSE generator

\* the (kind, specifier) entries of the VHDL table
VhdlEntries ==
    UNION {{<<kind, specifier>> : specifier \in DOMAIN vhdl_code_generation_table[kind]} :
              kind \in DOMAIN vhdl_code_generation_table}

VhdlFormats ==
    {ML_StdLogic, ML_Bool, ML_Integer, ML_Int32, ML_Binary16, ML_Binary32, ML_Binary64}
    \cup VectorFormats

\* nodes of every kind of the VHDL table with one or two variable operands
VhdlNodes ==
    {Node(e[1], e[2], p, <<Variable(a)>>, 0) :
        e \in VhdlEntries, p \in VhdlFormats, a \in VhdlFormats}
    \cup
    {Node(e[1], e[2], p, <<Variable(a), Variable(b)>>, 0) :
        e \in VhdlEntries, p \in VhdlFormats, a \in VhdlFormats, b \in VhdlFormats}

\* one node is handed to the VHDL backend
InitVhdl ==
    /\ static_cst = FALSE
    /\ static_table = TRUE
    /\ InitNestedCode
    /\ dtable = <<>>
    /\ dnode \in VhdlNodes
    /\ dres = NoResult
    /\ dtree = NullNode
    /\ NoScheme

NextVhdl == ResolveBackend("VHDLBackend", "VHDL_Code")

SpecVhdl == InitVhdl /\ [][NextVhdl]_vars

----------------------------------------------------------------------------
(* Tree rewrites (vhdl_backend.py) *)

\* the outcome of a call that raises instead of returning a tree
Raise(exception) == Node(exception, None, ML_Integer, <<>>, 0)

Exceptions == {"AssertionError", "UnboundLocalError"}

\* variant: the zeros are put in the low part
zext_modifier_low_zeros(optree) ==
    LET ext_input == optree.inputs[1]
        ext_size == optree.attr
        precision == ML_StdLogicVectorFormat(ext_size)
        ext_precision ==
            ML_StdLogicVectorFormat(ext_size + get_bit_size(ext_input.precision))
    IN  IF ~(ext_size >= 0) THEN Raise("AssertionError")
        ELSE IF ext_size = 0 THEN ext_input
        ELSE [Node("Concatenation", None, ext_precision,
                   <<ext_input, Constant(0, precision)>>, 0) EXCEPT !.tag = optree.tag]

\* zext_modifier ; optree.ext_size is kept in attr
zext_modifier(optree) ==
    LET ext_input == optree.inputs[1]
        ext_size == optree.attr
        precision == ML_StdLogicVectorFormat(ext_size)
        ext_precision ==
            ML_StdLogicVectorFormat(ext_size + get_bit_size(ext_input.precision))
    IN  IF ~(ext_size >= 0) THEN Raise("AssertionError")
        ELSE IF ext_size = 0 THEN ext_input
        ELSE [Node("Concatenation", None, ext_precision,
                   <<Constant(0, precision), ext_input>>, 0) EXCEPT !.tag = optree.tag]

\* exponent and field sizes of the floating-point formats
get_exponent_size(format) ==
    CASE format = ML_Binary16 -> 5 [] format = ML_Binary32 -> 8 [] format = ML_Binary64 -> 11

get_field_size(format) ==
    CASE format = ML_Binary16 -> 10 [] format = ML_Binary32 -> 23 [] format = ML_Binary64 -> 52

get_mantissa_size(format) == get_field_size(format) + 1

get_zero_exponent_value(format) == 0

\* the bit vector format that carries a floating-point format
get_support_format(format) == ML_StdLogicVectorFormat(get_bit_size(format))

\* mantissa_extraction_modifier
mantissa_extraction_modifier(optree) ==
    LET op == optree.inputs[1]
        op_precision == op.precision
        exp_prec == ML_StdLogicVectorFormat(get_exponent_size(op_precision))
        field_prec == ML_StdLogicVectorFormat(get_field_size(op_precision))
        exp_op == Node("ExponentExtraction", None, exp_prec, <<op>>, 0)
        field_op ==
            Node("SubSignalSelection", None, field_prec,
                 <<Node("TypeCast", None, get_support_format(op.precision), <<op>>, 0)>>,
                 SubSignalIndices(0, get_field_size(op_precision) - 1))
        implicit_digit ==
            [Node("Select", None, ML_StdLogic,
                  <<Node("Comparison", "Equal", ML_Bool,
                         <<exp_op, Constant(get_zero_exponent_value(op_precision), exp_prec)>>,
                         0),
                    Constant(0, ML_StdLogic),
                    Constant(1, ML_StdLogic)>>, 0) EXCEPT !.tag = "implicit_digit"]
    IN  [Node("Concatenation", None,
              ML_StdLogicVectorFormat(get_mantissa_size(op_precision)),
              <<implicit_digit, field_op>>, 0) EXCEPT !.tag = optree.tag]

\* sext_modifier : its second statement reads ext_input, which is assigned
\* by the third one
sext_modifier(optree) == Raise("UnboundLocalError")

\* the rewrite function applied to the node
Modifiers ==
    {"zext_modifier", "negation_modifer", "mantissa_extraction_modifier", "sext_modifier"}

ApplyModifier(optree_modifier, optree) ==
    CASE optree_modifier = "zext_modifier" -> zext_modifier(optree)
      [] optree_modifier = "negation_modifer" -> negation_modifer(optree)
      [] optree_modifier = "mantissa_extraction_modifier" ->
             mantissa_extraction_modifier(optree)
      [] optree_modifier = "sext_modifier" -> sext_modifier(optree)

\* the kind of node each rewrite function is written for
ModifiedKind ==
    [zext_modifier |-> "ZeroExt", negation_modifer |-> "Negation",
     mantissa_extraction_modifier |-> "MantissaExtraction", sext_modifier |-> "SignExt"]

\* largest ext_size of the extension nodes
MaxExtSize == 2

\* an extension node of kind ZeroExt or SignExt
Extension(kind, ext_input, ext_size) ==
    Node(kind, None,
         ML_StdLogicVectorFormat(ext_size + get_bit_size(ext_input.precision)),
         <<ext_input>>, ext_size)

\* the operands of the extension nodes: a variable or an extension of one
ExtensionInputs(kind) ==
    {Variable(v) : v \in VectorFormats}
    \cup {Extension(kind, Variable(v), e) : v \in VectorFormats, e \in 0..MaxExtSize}

\* the tags of the nodes handed to the rewrite functions
Tags == {"r", "t"}

\* the node with its tag set
set_tag(optree, tag) == [optree EXCEPT !.tag = tag]

\* the nodes handed to the rewrite functions
RewriteNodes ==
    {set_tag(optree, tag) : tag \in Tags, optree \in
        {Node("Negation", None, p, <<Variable(a)>>, 0) :
            p \in VectorFormats, a \in VectorFormats}
        \cup {Extension(kind, x, e) : kind \in {"ZeroExt"}, x \in ExtensionInputs("ZeroExt"),
                                      e \in -1..MaxExtSize}
        \cup {Extension(kind, x, e) : kind \in {"SignExt"}, x \in ExtensionInputs("SignExt"),
                                      e \in 0..MaxExtSize}
        \cup {Node("MantissaExtraction", None,
                   ML_StdLogicVectorFormat(get_mantissa_size(f)), <<Variable(f)>>, 0) :
                 f \in {ML_Binary16, ML_Binary32, ML_Binary64}}}

\* one node is handed to a rewrite function
InitRewrite ==
    /\ static_cst = FALSE
    /\ static_table = TRUE
    /\ InitNestedCode
    /\ dtable = <<>>
    /\ dnode \in RewriteNodes
    /\ dres = NoResult
    /\ dtree = NullNode
    /\ NoScheme

\* the rewrite function is applied to the node
Rewrite(optree_modifier) ==
    /\ dtree = NullNode
    /\ dnode.kind = ModifiedKind[optree_modifier]
    /\ dtree' = ApplyModifier(optree_modifier, dnode)
    /\ UNCHANGED <<dtable, dnode, dres, fvars>>
    /\ UNCHANGED nvars

NextRewrite == \E optree_modifier \in Modifiers : Rewrite(optree_modifier)

SpecRewrite == InitRewrite /\ [][NextRewrite]_vars

----------------------------------------------------------------------------
(* get_remainder (payne_hanek.py) *)

\* width the integer formats ML_Int32 / ML_Int64 are narrowed to
IntBits == 5

\* the integers of the narrowed format, in two's complement
IntValues == -(2 ^ (IntBits - 1))..(2 ^ (IntBits - 1)) - 1

\* the bit pattern of a value of the integer format, as a natural number
ToUnsigned(value) == value % (2 ^ IntBits)

\* the value of the integer format that has the bit pattern
ToSigned(pattern) ==
    IF pattern >= 2 ^ (IntBits - 1) THEN pattern - 2 ^ IntBits ELSE pattern

\* bit i of a value of the integer format
Bit(value, i) == (ToUnsigned(value) \div (2 ^ i)) % 2

\* Python's ~ on an integer
Invert(value) == -value - 1

\* BitLogicAnd on two values of the integer format
BitLogicAnd(a, b) ==
    LET RECURSIVE and(_, _, _)
        and(x, y, w) ==
            IF w = 0 THEN 0
            ELSE (x % 2) * (y % 2) + 2 * and(x \div 2, y \div 2, w - 1)
    IN  ToSigned(and(ToUnsigned(a), ToUnsigned(b), IntBits))

\* the constant get_remainder masks the rounded integer with
get_remainder_mask(k) == Invert(2 ^ (k + 1) - 1)

\* get_remainder, on the value NearestInteger gave: the operand of the final
\* Conversion
get_remainder(nearest, k) == BitLogicAnd(nearest, get_remainder_mask(k))

\* the values of k whose mask fits the integer format
RemainderShifts == 0..IntBits - 2

\* a call of get_remainder is about to be evaluated
InitRemainder ==
    /\ static_cst = FALSE
    /\ static_table = TRUE
    /\ InitNestedCode
    /\ dtable = <<>>
    /\ dnode = NullNode
    /\ dres = NoResult
    /\ dtree = NullNode
    /\ pc = "get_remainder"
    /\ env \in [nearest : IntValues, k : RemainderShifts, result : {0}]

\* the expression get_remainder built is evaluated
GetRemainder ==
    /\ pc = "get_remainder"
    /\ pc' = "returned"
    /\ env' = [env EXCEPT !.result = get_remainder(env.nearest, env.k)]
    /\ UNCHANGED <<nvars, dvars>>

NextRemainder == GetRemainder

SpecRemainder == InitRemainder /\ [][NextRemainder]_vars

----------------------------------------------------------------------------
(* The remquo scheme (remquo.py): the reduction loops *)

\* ReferenceAssign(loop_watchdog, 5000)
WatchdogInit == 5000

\* variant: the watchdog fires one iteration later
WatchdogExpired_below(loop_watchdog) == loop_watchdog < -1

\* ConditionBlock(loop_watchdog < 0, Return(-1))
WatchdogExpired(loop_watchdog) == loop_watchdog < 0

\* the three Loop statements, in the order of the scheme
Loops == <<"loop1", "loop2", "loop3">>

\* the statement that follows Loop l
AfterLoop(l) == IF l < Len(Loops) THEN Loops[l + 1] ELSE "end"

\* what the local variable loop_watchdog can hold before it is assigned
Uninitialized == {-1, 0, 1}

\* the scheme has passed the special cases and enters the loop statement
InitLoop ==
    /\ static_cst = FALSE
    /\ static_table = TRUE
    /\ InitNestedCode
    /\ dtable = <<>>
    /\ dnode = NullNode
    /\ dres = NoResult
    /\ dtree = NullNode
    /\ pc = "loop"
    /\ env \in [loop_watchdog : Uninitialized, iterations : {0}, returned : {0}]

\* ReferenceAssign(loop_watchdog, 5000) ; ReferenceAssign(q, 0)
LoopStart ==
    /\ pc = "loop"
    /\ pc' = Loops[1]
    /\ env' = [env EXCEPT !.loop_watchdog = WatchdogInit]
    /\ UNCHANGED <<nvars, dvars>>

\* the condition of Loop l holds: its body runs once, whatever it computes
\* on q, mx and my
LoopIterate(l) ==
    /\ pc = Loops[l]
    /\ LET loop_watchdog == env.loop_watchdog - 1
       IN  IF WatchdogExpired(loop_watchdog)
           THEN /\ pc' = "returned"
                /\ env' = [env EXCEPT !.loop_watchdog = loop_watchdog,
                                      !.iterations = @ + 1,
                                      !.returned = -1]
           ELSE /\ pc' = pc
                /\ env' = [env EXCEPT !.loop_watchdog = loop_watchdog,
                                      !.iterations = @ + 1]
    /\ UNCHANGED <<nvars, dvars>>

\* the condition of Loop l does not hold: the scheme goes on after it
LoopExit(l) ==
    /\ pc = Loops[l]
    /\ pc' = AfterLoop(l)
    /\ UNCHANGED env
    /\ UNCHANGED <<nvars, dvars>>

NextLoop ==
    \/ LoopStart
    \/ \E l \in 1..Len(Loops) : LoopIterate(l)
    \/ \E l \in 1..Len(Loops) : LoopExit(l)

SpecLoop == InitLoop /\ [][NextLoop]_vars

\* the generated code runs to its end: a statement that can execute does
SpecLoopFair == SpecLoop /\ WF_vars(NextLoop)

----------------------------------------------------------------------------
(* The remquo scheme (remquo.py): the special cases *)

Modes == {"QUOTIENT_MODE", "REMAINDER_MODE", "FULL_MODE"}

\* one value of each class of floating-point values, with both signs
FPValues == {"NaN", "+0", "-0", "+inf", "-inf", "+1", "-1"}

is_nan(v) == v = "NaN"
is_zero(v) == v \in {"+0", "-0"}
is_infty(v) == v \in {"+inf", "-inf"}

\* quotient invalid value
QUO_INVALID_VALUE == 0

\* FP_QNaN(self.precision)
FP_QNaN == "NaN"

\* an integer as a returned value
IntResult(value) == ToString(value)

\* the Test of a ConditionBlock on the arguments
TestHolds(test, vx, vy) ==
    CASE test = "vx_or_vy_IsNaN" -> is_nan(vx) \/ is_nan(vy)
      [] test = "vy_IsZero" -> is_zero(vy)
      [] test = "vx_IsZero" -> is_zero(vx)
      [] test = "vx_IsInfty" -> is_infty(vx)
      [] test = "vy_IsInfty" -> is_infty(vy)

SchemeCase(test, quotient, remainder) ==
    [test |-> test, quotient |-> quotient, remainder |-> remainder]

\* variant: the test of a zero x comes before the test of a zero y
mod_scheme_vx_zero_first ==
    <<SchemeCase("vx_or_vy_IsNaN", IntResult(QUO_INVALID_VALUE), FP_QNaN),
      SchemeCase("vx_IsZero", IntResult(0), "vx"),
      SchemeCase("vy_IsZero", IntResult(QUO_INVALID_VALUE), FP_QNaN),
      SchemeCase("vx_IsInfty", IntResult(QUO_INVALID_VALUE), FP_QNaN),
      SchemeCase("vy_IsInfty", IntResult(0), "vx")>>

\* the ConditionBlocks of mod_scheme that test the classes of vx and vy, in
\* their order: (test, QuotientReturn argument, RemainderReturn argument)
mod_scheme ==
    <<SchemeCase("vx_or_vy_IsNaN", IntResult(QUO_INVALID_VALUE), FP_QNaN),
      SchemeCase("vy_IsZero", IntResult(QUO_INVALID_VALUE), FP_QNaN),
      SchemeCase("vx_IsZero", IntResult(0), "vx"),
      SchemeCase("vx_IsInfty", IntResult(QUO_INVALID_VALUE), FP_QNaN),
      SchemeCase("vy_IsInfty", IntResult(0), "vx")>>

\* the value of a returned expression
Returned(expr, vx) == IF expr = "vx" THEN vx ELSE expr

\* numeric_emulate, up to the canonical cases
numeric_emulate(mode, vx, vy) ==
    IF mode = "QUOTIENT_MODE"
    THEN IF is_nan(vx) \/ is_nan(vy) \/ is_zero(vy) \/ is_infty(vx) THEN IntResult(0)
         ELSE IF is_infty(vy) \/ is_zero(vx) THEN IntResult(0)
         ELSE "canonical"
    ELSE IF is_nan(vx) \/ is_nan(vy) \/ is_zero(vy) THEN FP_QNaN
         ELSE IF is_zero(vx) THEN vx
         ELSE IF is_infty(vx) THEN FP_QNaN
         ELSE IF is_infty(vy) THEN vx
         ELSE "canonical"

\* the generated function is called on (vx, vy)
InitRemquo ==
    /\ static_cst = FALSE
    /\ static_table = TRUE
    /\ InitNestedCode
    /\ dtable = <<>>
    /\ dnode = NullNode
    /\ dres = NoResult
    /\ dtree = NullNode
    /\ pc = 1
    /\ env \in [mode : Modes, vx : FPValues, vy : FPValues,
                quo : {"none"}, returned : {"none"}]

\* the i-th ConditionBlock of mod_scheme: QuotientReturn then RemainderReturn
\* when its test holds, the next statement otherwise
ConditionBlock(i) ==
    /\ pc = i
    /\ LET case == mod_scheme[i]
           quotient == Returned(case.quotient, env.vx)
           remainder == Returned(case.remainder, env.vx)
       IN  IF TestHolds(case.test, env.vx, env.vy)
           THEN /\ pc' = 0
                /\ env' = CASE env.mode = "QUOTIENT_MODE" ->
                                   [env EXCEPT !.returned = quotient]
                            [] env.mode = "REMAINDER_MODE" ->
                                   [env EXCEPT !.returned = remainder]
                            [] env.mode = "FULL_MODE" ->
                                   [env EXCEPT !.quo = quotient, !.returned = remainder]
           ELSE /\ pc' = i + 1
                /\ UNCHANGED env
    /\ UNCHANGED <<nvars, dvars>>

NextRemquo == \E i \in 1..Len(mod_scheme) : ConditionBlock(i)

SpecRemquo == InitRemquo /\ [][NextRemquo]_vars

----------------------------------------------------------------------------
(* Observers used by the properties *)

\* the chain of scopes from the outermost one down to s
ScopePath(s) == scopes[s].parent_tables \o <<s>>

Last(q) == q[Len(q)]

\* every name bound in a category table of a scope on the stack
VisibleKeys ==
    UNION {Keys(table_list(x)[k]) : x \in Range(code_list), k \in 1..5}

\* number of declarations of symbol_object in text
CountDecl(text, symbol_object) ==
    Cardinality({i \in 1..Len(text) :
        /\ Len(text[i]) = 3
        /\ text[i][1] = "decl"
        /\ text[i][3] = symbol_object})

\* the calls of log that came from the scope of call i or from a scope
\* nested inside it
NestedCalls(log, i) ==
    {j \in 1..Len(log) : IsPrefixOf(ScopePath(log[i].scope), ScopePath(log[j].scope))}

----------------------------------------------------------------------------
(* C1: the name returned by get_free_name is, at the moment of the call,   *)
(* not bound in any category table of the current scope nor of any scope   *)
(* below it on the stack.                                                  *)
C1_FreeNameNotVisible ==
    [][\A s \in DOMAIN issued :
          issued'[s] # issued[s] => Last(issued'[s]).name \notin VisibleKeys]_vars

\* a suffixed name was handed out two levels deep
C1_Witness ==
    /\ Len(code_list) = 3
    /\ ret.op = "get_free_var_name"
    /\ ret.value \notin AllPrefixes

ScenarioB ==
    /\ Len(issued[main_code]) = 3
    /\ \A i \in 1..3 : issued[main_code][i].prefix = "tmp" /\ issued[main_code][i].declared
    /\ Len(scopes[main_code].variable_table) = 3
    /\ static_function_table = <<>>
    /\ constant_table(main_code) = <<>>
    /\ table_table(main_code) = <<>>

(* C3 as stated: three successive declared requests for prefix "tmp" in an *)
(* empty scope yield "tmp", "tmp0", "tmp1".                                *)
C3_Original ==
    ScenarioB => [i \in 1..3 |-> issued[main_code][i].name] = <<"tmp", "tmp0", "tmp1">>

(* C3 amended: three successive declared requests for prefix "tmp" in an   *)
(* empty scope yield "tmp", "tmp1", "tmp2".                                *)
C3_ScenarioB ==
    ScenarioB => [i \in 1..3 |-> issued[main_code][i].name] = <<"tmp", "tmp1", "tmp2">>

C3_Witness == ScenarioB

(* C4: declaring the same table object twice with declare_table, the       *)
(* second time from the same scope or from a scope nested inside the first,*)
(* returns the same name, and the text of NestedCode.get holds exactly one *)
(* declaration of that table.                                              *)
C4_TableDeclaredOnce ==
    \A t \in TableObjects :
        /\ \A i \in 1..Len(tlog[t]) : \A j \in NestedCalls(tlog[t], i) :
               i < j => tlog[t][j].name = tlog[t][i].name
        /\ (/\ Len(code_list) = 1
            /\ Len(tlog[t]) >= 1
            /\ NestedCalls(tlog[t], 1) = 1..Len(tlog[t]))
           => CountDecl(NestedCode_get, t) = 1

\* a table declared in one scope, again in a scope nested in it, all closed
C4_Witness ==
    \E t \in TableObjects :
        /\ Len(code_list) = 1
        /\ Len(tlog[t]) = 2
        /\ tlog[t][1].scope # tlog[t][2].scope
        /\ NestedCalls(tlog[t], 1) = {1, 2}
        /\ ~static_table

(* C5 as stated: declaring the same constant object twice with declare_cst *)
(* returns the same name both times and exactly one declaration of it is   *)
(* emitted.                                                                *)
C5_Original ==
    \A c \in CstObjects :
        /\ \A i \in 1..Len(clog[c]) : \A j \in NestedCalls(clog[c], i) :
               clog[c][j].name = clog[c][i].name
        /\ (Len(code_list) = 1 /\ Len(clog[c]) >= 1)
           => CountDecl(NestedCode_get, c) = 1

(* C5 amended: declaring the same constant object twice with declare_cst,  *)
(* the second time from the same scope or a scope nested inside the first, *)
(* returns two different names, and one declaration is emitted per call.   *)
C5_CstDeclaredPerCall ==
    \A c \in CstObjects :
        /\ \A i \in 1..Len(clog[c]) : \A j \in NestedCalls(clog[c], i) :
               i < j => clog[c][j].name # clog[c][i].name
        /\ Len(code_list) = 1 => CountDecl(NestedCode_get, c) = Len(clog[c])

\* one constant declared twice, once in a nested scope, all closed
C5_Witness ==
    \E c \in CstObjects :
        /\ Len(code_list) = 1
        /\ Len(clog[c]) = 2
        /\ \E i \in 1..2 : clog[c][i].scope # main_code

(* C6: with a shared constant category (static_cst), after open_level,     *)
(* declare_cst of one constant in the nested scope and close_level, the    *)
(* constant is bound under exactly one name of the shared table, its       *)
(* declaration is not in the text merged into the parent, and              *)
(* NestedCode.get emits it exactly once.                                   *)
C6_SharedCstOnce ==
    \A c \in CstObjects :
        (/\ static_cst
         /\ Len(code_list) = 1
         /\ Len(clog[c]) = 1
         /\ clog[c][1].scope # main_code)
        => /\ Cardinality({i \in 1..Len(static_cst_table) :
                              static_cst_table[i][2] = c}) = 1
           /\ CountDecl(scopes[main_code].expanded_code, c) = 0
           /\ CountDecl(NestedCode_get, c) = 1

C6_Witness ==
    \E c \in CstObjects :
        /\ static_cst
        /\ Len(code_list) = 1
        /\ Len(clog[c]) = 1
        /\ clog[c][1].scope # main_code
        /\ ret.op = "close_level"

\* the declare_table calls of t that bound a new name, visible from scope x
DeclaringCalls(t) == {i \in 1..Len(tlog[t]) : tlog[t][i].fresh}

VisibleDeclaringCalls(t, x) ==
    {i \in DeclaringCalls(t) : IsPrefixOf(ScopePath(tlog[t][i].scope), ScopePath(x))}

(* C7: a table declared in scope S is found by table_has_definition from S *)
(* and from every scope nested in S; from a scope that is neither S nor    *)
(* nested in a declaring scope the search returns None, unless the table   *)
(* category is shared (static_table).                                      *)
C7_DefinitionVisibility ==
    \A t \in TableObjects : \A x \in Range(code_list) :
        /\ VisibleDeclaringCalls(t, x) # {}
           => table_has_definition(x, t) \in
                  {tlog[t][i].name : i \in VisibleDeclaringCalls(t, x)}
        /\ (VisibleDeclaringCalls(t, x) = {} /\ ~static_table)
           => table_has_definition(x, t) = None
        /\ (DeclaringCalls(t) # {} /\ static_table)
           => table_has_definition(x, t) \in
                  {tlog[t][i].name : i \in DeclaringCalls(t)}

\* a table declared in a closed scope, searched from a later sibling and
\* from the ancestor
C7_Witness ==
    \E t \in TableObjects :
        /\ ~static_table
        /\ Len(code_list) = 2
        /\ DeclaringCalls(t) # {}
        /\ \A i \in DeclaringCalls(t) : tlog[t][i].scope \notin Range(code_list)

\* the group selected for the node : the first whose predicate holds
ApplicableGroups == {i \in 1..Len(dtable) : PredicateHolds(dtable[i].predicate, dnode)}

SelectedGroup == CHOOSE i \in ApplicableGroups : \A j \in ApplicableGroups : i <= j

MatchingRules(i) ==
    {k \in 1..Len(dtable[i].rules) : MatcherHolds(dtable[i].rules[k].match, Interface(dnode))}

(* C8: resolution is two-level without fallthrough: the first group whose  *)
(* applicability predicate holds is selected; the generator comes from the *)
(* first matching rule of that group, and when none of its rules matches   *)
(* the node resolution fails with NoMatchingRule, whatever later groups    *)
(* hold.                                                                   *)
C8_NoFallthrough ==
    (dres.target = "table" /\ ApplicableGroups # {})
    => IF MatchingRules(SelectedGroup) = {}
       THEN dres.result.status = "NoMatchingRule"
       ELSE /\ dres.result.status = "ok"
            /\ \E k \in MatchingRules(SelectedGroup) :
                  /\ \A l \in MatchingRules(SelectedGroup) : k <= l
                  /\ dres.result.generator = dtable[SelectedGroup].rules[k].generator

\* the selected group has no matching rule while a later applicable group
\* has one
C8_Witness ==
    /\ dres.target = "table"
    /\ ApplicableGroups # {}
    /\ MatchingRules(SelectedGroup) = {}
    /\ \E j \in ApplicableGroups : j > SelectedGroup /\ MatchingRules(j) # {}
    /\ dres.result.status = "NoMatchingRule"

(* C9: when rendering a node fails with NoMatchingRule, the code buffers   *)
(* and the symbol tables of every scope are what they were before the      *)
(* rendering of that node started.                                         *)
C9_FailedRenderWritesNothing ==
    [][(nsteps' # nsteps /\ ret'.op = "render" /\ ret'.value = "NoMatchingRule")
       => UNCHANGED <<scopes, code_list, static_cst_table, static_table_table,
                      static_function_table>>]_vars

\* a node whose kind has an entry failed to resolve in a nested scope that
\* already holds text
C9_Witness ==
    /\ ret.op = "render"
    /\ ret.value = "NoMatchingRule"
    /\ HasOwnEntry("VHDLBackend", "VHDL_Code", dnode)
    /\ Len(code_list) = 2
    /\ scopes[code_list[1]].expanded_code # <<>>
    /\ scopes[code_list[1]].variable_table # <<>>

AllInteger(optree) == \A i \in 1..Len(Interface(optree)) : Interface(optree)[i] = ML_Integer

(* C10: resolution against VHDLBackend uses its own table entry for the    *)
(* language and kind/specifier when it has one and otherwise the entry of  *)
(* FormalBackend: a Multiplication node, and any node for C_Code, resolve  *)
(* through the formal table.                                               *)
C10_BackendFallback ==
    dres.target = "VHDLBackend"
    => /\ HasOwnEntry("VHDLBackend", dres.language, dnode)
          => dres.result =
                 get_implementation(VHDLBackend_code_generation_table[dres.language], dnode)
       /\ ~HasOwnEntry("VHDLBackend", dres.language, dnode)
          => dres.result =
                 get_implementation(FormalBackend_code_generation_table[dres.language], dnode)
       /\ (/\ dnode.kind = "Multiplication"
           /\ AllInteger(dnode)
           /\ dres.language \in {"VHDL_Code", "C_Code"})
          => dres.result = Resolved(SymbolOperator("*", 2, FALSE))
       /\ (dnode.kind = "Addition" /\ AllInteger(dnode) /\ dres.language = "C_Code")
          => dres.result = Resolved(SymbolOperator("+", 2, FALSE))

\* a Multiplication node resolved for VHDL_Code against VHDLBackend
C10_Witness ==
    /\ dres.target = "VHDLBackend"
    /\ dres.language = "VHDL_Code"
    /\ dnode.kind = "Multiplication"
    /\ AllInteger(dnode)
    /\ dres.result.status = "ok"

----------------------------------------------------------------------------
(* Observers of the declaration order *)

\* category k of scope s is one of the tables shared by every scope
IsShared(k) ==
    \/ k = FunctionSymbol
    \/ k = ConstantSymbol /\ static_cst
    \/ k = TableSymbol /\ static_table

\* the declarations of oplog that went to category k of scope s
DeclaredIn(s, k) ==
    {i \in 1..Len(oplog) : /\ oplog[i].op = "declare"
                           /\ oplog[i].cat = k
                           /\ IsShared(k) \/ oplog[i].scope = s}

\* the names of category k of scope s, in the order of their first declaration
FirstDeclared(s, k) ==
    LET RECURSIVE first(_)
        first(i) ==
            IF i > Len(oplog) THEN <<>>
            ELSE (IF /\ i \in DeclaredIn(s, k)
                     /\ \A j \in DeclaredIn(s, k) : j < i => oplog[j].name # oplog[i].name
                  THEN <<oplog[i].name>> ELSE <<>>) \o first(i + 1)
    IN  first(1)

\* the names declared by a text, in the order of its declaration lines
DeclaredNames(text) ==
    LET RECURSIVE names(_)
        names(i) ==
            IF i > Len(text) THEN <<>>
            ELSE (IF Len(text[i]) = 3 /\ text[i][1] = "decl"
                  THEN <<text[i][2]>> ELSE <<>>) \o names(i + 1)
    IN  names(1)

(* C11: within one category, generate_declarations emits the declarations  *)
(* in the order in which the names were first declared, whatever the names *)
(* and whatever the iteration order of the container.                      *)
C11_FirstDeclaredOrder ==
    \A s \in DOMAIN scopes :
        \A k \in {ConstantSymbol, FunctionSymbol, VariableSymbol, TableSymbol} :
            DeclaredNames(generate_declarations(s, (1..5) \ {k})) = FirstDeclared(s, k)

----------------------------------------------------------------------------
(* Observers of the layout of a text *)

\* the lines of a text: the text between the newlines, then what follows the
\* last newline
Lines(text) ==
    LET RECURSIVE split(_, _)
        split(i, line) ==
            IF i > Len(text) THEN <<line>>
            ELSE IF text[i] = <<"nl">> THEN <<line>> \o split(i + 1, <<>>)
            ELSE split(i + 1, Append(line, text[i]))
    IN  split(1, <<>>)

\* the number of indentation units a line starts with
RECURSIVE Depth(_)
Depth(line) ==
    IF line # <<>> /\ Head(line) = <<"tab">> THEN 1 + Depth(Tail(line)) ELSE 0

\* the line without its indentation
Content(line) == SubSeq(line, Depth(line) + 1, Len(line))

\* the lines i of lines that hold only the token tok
LinesOf(lines, tok) == {i \in 1..Len(lines) : Content(lines[i]) = <<tok>>}

\* the line that opened the level still open at the end of lines
OpenerIndex(lines) ==
    LET after(i, tok) == Cardinality({j \in LinesOf(lines, tok) : j > i})
        open == {i \in LinesOf(lines, <<"{">>) : after(i, <<"{">>) = after(i, <<"}">>)}
    IN  CHOOSE i \in open : \A j \in open : j <= i

\* the declaration lines of the categories of scope s that close_level emits
OwnDeclarations(s) ==
    UNION {{DeclToken(table_list(s)[k][i][1], table_list(s)[k][i][2]) :
                i \in 1..Len(table_list(s)[k])} : k \in {k \in 1..5 : ~IsShared(k)}}

(* C12: close_level pops exactly the innermost scope and appends to its    *)
(* parent the popped scope's non-excluded declarations, then its           *)
(* statements, then the closing "}"; every line of the popped text is one  *)
(* indentation unit deeper than the line that opened the level, the "}" is *)
(* at the indentation of that line, at any nesting depth.                  *)
C12_CloseLevelLayout ==
    [][(ret'.op = "close_level" /\ Len(code_list) > 1) =>
        LET popped == code_list[1]
            parent == code_list[2]
            old == Lines(scopes[parent].expanded_code)
            new == Lines(scopes'[parent].expanded_code)
            body == Lines(scopes[popped].expanded_code)
            n == Len(old) - 1
            m == Len(body) - 1
            nd == Cardinality(OwnDeclarations(popped))
            base == n + nd + (IF nd > 0 THEN 1 ELSE 0)
            d == Depth(old[OpenerIndex(SubSeq(old, 1, n))])
        IN  /\ code_list' = Tail(code_list)
            /\ \A s \in DOMAIN scopes : s # parent => scopes'[s] = scopes[s]
            /\ Len(new) = base + m + 2
            /\ \A i \in 1..n : new[i] = old[i]
            /\ {Content(new[n + i]) : i \in 1..nd} =
                   {<<decl>> : decl \in OwnDeclarations(popped)}
            /\ \A i \in (n + 1)..base : Depth(new[i]) = d + 1
            /\ nd > 0 => Content(new[base]) = <<>>
            /\ \A j \in 1..m : /\ Content(new[base + j]) = Content(body[j])
                               /\ Depth(new[base + j]) = Depth(body[j]) + d + 1
            /\ Content(new[base + m + 1]) = << <<"}">> >>
            /\ Depth(new[base + m + 1]) = d]_vars

\* a level opened inside another one has been closed and has left a
\* declaration in its parent
C12_Witness ==
    /\ ret.op = "close_level"
    /\ Len(code_list) = 2
    /\ \E i \in 1..Len(scopes[code_list[1]].expanded_code) :
          scopes[code_list[1]].expanded_code[i][1] = "decl"

----------------------------------------------------------------------------
(* Observers of the excluded categories *)

\* the objects a category holds
CategoryObjects(k) ==
    CASE k = ConstantSymbol -> CstObjects
      [] k = FunctionSymbol -> FunctionObjects
      [] k = TableSymbol -> TableObjects
      [] OTHER -> {"Variable"}

\* the declarations of oplog that went to a category close_level excludes
ExcludedDeclarations ==
    {i \in 1..Len(oplog) : oplog[i].op = "declare" /\ IsShared(oplog[i].cat)}

\* the lines of lines, at any indentation depth, that declare name in
\* category k
DeclarationLines(lines, name, k) ==
    {i \in 1..Len(lines) :
        LET content == Content(lines[i])
        IN  /\ Len(content) = 1
            /\ Len(content[1]) = 3
            /\ content[1][1] = "decl"
            /\ content[1][2] = name
            /\ content[1][3] \in CategoryObjects(k)}

(* C13: excluding a category from emission never un-reserves its names:    *)
(* no buffer holds, after any close_level, a declaration of an excluded    *)
(* category (functions, constants when static_cst, tables when              *)
(* static_table); every such name stays not free for is_free_name in every *)
(* scope; NestedCode.get emits each such declaration exactly once, at the   *)
(* outermost level.                                                         *)
C13_ExcludedStayReserved ==
    /\ \A s \in DOMAIN scopes :
          LET lines == Lines(scopes[s].expanded_code)
          IN  \A i \in ExcludedDeclarations :
                  /\ DeclarationLines(lines, oplog[i].name, oplog[i].cat) = {}
                  /\ ~is_free_name(s, oplog[i].name)
    /\ (Len(code_list) = 1 /\ ExcludedDeclarations # {}) =>
          LET lines == Lines(NestedCode_get)
          IN  \A i \in ExcludedDeclarations :
                  LET declared == DeclarationLines(lines, oplog[i].name,
                                                   oplog[i].cat)
                  IN  /\ Cardinality(declared) = 1
                      /\ \A j \in declared : Depth(lines[j]) = 0

\* a name of an excluded category was declared in a nested level, the level
\* was closed and a later level has been opened
C13_Witness ==
    \E i \in ExcludedDeclarations :
        /\ oplog[i].scope # main_code
        /\ oplog[i].scope \notin Range(code_list)
        /\ Len(code_list) = 2
        /\ code_list[1] > oplog[i].scope

----------------------------------------------------------------------------
(* C14: after any sequence of get_free_var_name, declare_cst, declare_table *)
(* and declare_function, at any depth, no name is bound in more than one    *)
(* category table of the namespace visible from the current scope.          *)
C14_NoNameCollision ==
    Len(code_list) > 0 =>
        \A s1 \in Range(ScopePath(code_list[1])), s2 \in Range(ScopePath(code_list[1])) :
            \A k1 \in 1..5, k2 \in 1..5 :
                k1 # k2 => Keys(table_list(s1)[k1]) \cap Keys(table_list(s2)[k2]) = {}

----------------------------------------------------------------------------
(* C15: declarations are append-only and irrevocable: once a name is bound  *)
(* to an entity in a category table, every later state binds that name to   *)
(* the same entity; no operation, declaring again under an already          *)
(* declared name included, removes or replaces a binding.                   *)
C15_AppendOnly ==
    [][/\ Range(static_cst_table) \subseteq Range(static_cst_table')
       /\ Range(static_table_table) \subseteq Range(static_table_table')
       /\ Range(static_function_table) \subseteq Range(static_function_table')
       /\ \A s \in DOMAIN scopes :
             /\ Range(scopes[s].constant_table) \subseteq Range(scopes'[s].constant_table)
             /\ Range(scopes[s].variable_table) \subseteq Range(scopes'[s].variable_table)
             /\ Range(scopes[s].protected_table) \subseteq Range(scopes'[s].protected_table)
             /\ Range(scopes[s].table_table) \subseteq Range(scopes'[s].table_table)]_vars

----------------------------------------------------------------------------
(* Observers of the headers *)

\* the add_header calls of oplog
HeaderCalls == {i \in 1..Len(oplog) : oplog[i].op = "add_header"}

\* the distinct headers added so far, in the order of their first insertion
FirstHeaders ==
    LET RECURSIVE first(_)
        first(i) ==
            IF i > Len(oplog) THEN <<>>
            ELSE (IF /\ i \in HeaderCalls
                     /\ \A j \in HeaderCalls : j < i => oplog[j].name # oplog[i].name
                  THEN <<oplog[i].name>> ELSE <<>>) \o first(i + 1)
    IN  first(1)

\* the places of the tokens of text whose first field is one of kinds
TokensOf(text, kinds) == {i \in 1..Len(text) : text[i][1] \in kinds}

(* C16: after any add_header calls, at any depth, the header list holds     *)
(* each distinct header exactly once, in the order of first insertion, and  *)
(* belongs to the main scope; generate_header_code emits exactly one        *)
(* include line per distinct header, before the body.                       *)
C16_HeadersOnceInOrder ==
    /\ scopes[main_code].header_list = FirstHeaders
    /\ \A s \in DOMAIN scopes : s # main_code => scopes[s].header_list = <<>>
    /\ \A i \in HeaderCalls :
          Count(generate_header_code(main_code), <<"include", oplog[i].name>>) = 1
    /\ Cardinality(TokensOf(generate_header_code(main_code), {"include"})) = Len(FirstHeaders)
    /\ Len(code_list) = 1 =>
          /\ \A i \in HeaderCalls :
                Count(NestedCode_get, <<"include", oplog[i].name>>) = 1
          /\ \A i \in TokensOf(NestedCode_get, {"include"}) :
                \A j \in TokensOf(NestedCode_get, {"decl", "stmt", "comment", "{", "}"}) :
                    i < j

\* the same header was added twice below the outermost level, and every
\* level is closed again
C16_Witness ==
    /\ Len(code_list) = 1
    /\ TokensOf(NestedCode_get, {"stmt", "{"}) # {}
    /\ \E i \in HeaderCalls, j \in HeaderCalls :
          /\ i < j
          /\ oplog[i].name = oplog[j].name
          /\ oplog[i].scope # main_code

----------------------------------------------------------------------------
(* Observers of the statements *)

\* the statements and comments written so far, in the order of the calls
Written ==
    LET RECURSIVE written(_)
        written(i) ==
            IF i > Len(oplog) THEN <<>>
            ELSE (IF oplog[i].op = "write"
                  THEN << <<oplog[i].obj, oplog[i].name>> >> ELSE <<>>) \o written(i + 1)
    IN  written(1)

\* the statements and comments of a text, in the order of the text
StatementsOf(text) ==
    LET IsStatement(tok) == tok[1] \in {"stmt", "comment"}
    IN  SelectSeq(text, IsStatement)

(* C17: whatever the writes and the balanced open_level / close_level calls *)
(* between them, once every opened level is closed the text returned by     *)
(* NestedCode.get holds every written statement exactly once, in the order  *)
(* written, whatever the depth it was written at.                           *)
C17_StatementsInOrder ==
    Len(code_list) = 1 => StatementsOf(NestedCode_get) = Written

\* a statement written inside a level and a different one written outside
\* it, every level closed
C17_Witness ==
    /\ Len(code_list) = 1
    /\ \E i \in 1..Len(oplog), j \in 1..Len(oplog) :
          /\ oplog[i].op = "write"
          /\ oplog[j].op = "write"
          /\ oplog[i].scope # oplog[j].scope
          /\ oplog[i].obj # oplog[j].obj

----------------------------------------------------------------------------
\* the operations NestedCode forwards to its innermost scope
ForwardedOperations ==
    {"write", "add_comment", "get_free_var_name", "declare_cst", "declare_table",
     "declare_function"}

(* C18: while a nested level is open, <<, add_comment, get_free_var_name,   *)
(* declare_cst, declare_table and declare_function leave unchanged the      *)
(* buffer text, the indentation level, the prefix counters and the          *)
(* non-shared category tables of every scope other than the innermost one.  *)
C18_OnlyInnermostModified ==
    [][(Len(code_list) > 1 /\ ret'.op \in ForwardedOperations) =>
          /\ code_list' = code_list
          /\ DOMAIN scopes' = DOMAIN scopes
          /\ \A s \in DOMAIN scopes : s # code_list[1] => scopes'[s] = scopes[s]]_vars

\* an operation has modified the innermost of two nested levels
C18_Witness ==
    /\ Len(code_list) = 3
    /\ ret.op \in ForwardedOperations
    /\ scopes[code_list[1]] # NewCodeObject(scopes[code_list[1]].parent_tables)

----------------------------------------------------------------------------
(* C20: for every rule of the VHDL table whose generator is, or dynamically *)
(* produces, a Symbol or Template generator, the matcher has as many        *)
(* operand positions as the generator's declared arity: a node accepted by  *)
(* a matcher never reaches rendering with a child count different from the  *)
(* generator's arity.                                                       *)
C20_MatcherArity ==
    (dres.target = "VHDLBackend" /\ dres.result.status = "ok") =>
        LET generator == LeafGenerator(dres.result.generator, dnode)
        IN  generator.op \in {"SymbolOperator", "TemplateOperator"}
                => Len(dnode.inputs) = generator.arity

----------------------------------------------------------------------------
\* the node occurs in the tree
RECURSIVE Occurs(_, _)
Occurs(optree, tree) ==
    \/ tree = optree
    \/ \E i \in 1..Len(tree.inputs) : Occurs(optree, tree.inputs[i])

(* C19: every tree-rewrite function of the VHDL backend (zext_modifier,     *)
(* negation_modifer, mantissa_extraction_modifier, sext_modifier) returns a *)
(* tree in which the node being rewritten does not occur and whose root is  *)
(* not of the rewritten node's kind, so the rewrites of a Complex node      *)
(* come to an end.                                                          *)
C19_RewriteReduces ==
    dtree # NullNode =>
        /\ dtree.kind \notin Exceptions
        /\ ~Occurs(dnode, dtree)
        /\ dtree.kind # dnode.kind

----------------------------------------------------------------------------
(* Values of bit-vector expressions *)

\* the value of a tree of "+" and "not" on bit vectors when every variable
\* holds x: each node's value is taken in the width of its result format
RECURSIVE Eval(_, _)
Eval(optree, x) ==
    LET w == get_bit_size(optree.precision)
    IN  CASE optree.kind = "Variable" -> x % (2 ^ w)
          [] optree.kind = "Constant" -> optree.attr
          [] optree.kind = "BitLogicNegate" ->
                 (2 ^ w) - 1 - Eval(optree.inputs[1], x)
          [] optree.kind = "Addition" ->
                 (Eval(optree.inputs[1], x) + Eval(optree.inputs[2], x)) % (2 ^ w)

\* the operation nodes of a tree: every node but its variables and constants
RECURSIVE OperationNodes(_)
OperationNodes(optree) ==
    IF optree.kind \in {"Variable", "Constant"} THEN {}
    ELSE {optree} \cup UNION {OperationNodes(optree.inputs[i]) : i \in 1..Len(optree.inputs)}

(* C21: the Negation rewrite produces Addition(BitLogicNegate(x),           *)
(* Constant 1) with the result format and tag of the original node; for     *)
(* every width w and every w-bit value x the rewritten expression evaluates *)
(* to (-x) mod 2^w; every operation node of the rewritten tree has a        *)
(* matching rule in the VHDL table.                                         *)
C21_NegationRewrite ==
    (dnode.kind = "Negation" /\ dtree # NullNode) =>
        LET w == get_bit_size(dnode.precision)
        IN  /\ dtree.kind = "Addition"
            /\ Len(dtree.inputs) = 2
            /\ dtree.inputs[1].kind = "BitLogicNegate"
            /\ dtree.inputs[1].inputs = dnode.inputs
            /\ dtree.inputs[2].kind = "Constant"
            /\ dtree.inputs[2].attr = 1
            /\ dtree.precision = dnode.precision
            /\ dtree.tag = dnode.tag
            /\ dnode.inputs[1].precision = dnode.precision =>
                  \A x \in 0..(2 ^ w) - 1 : Eval(dtree, x) = ((2 ^ w) - x) % (2 ^ w)
            /\ \A n \in OperationNodes(dtree) :
                  get_implementation(vhdl_code_generation_table, n) # NoMatchingRule

\* a Negation of a vector of the largest width, tagged "t", has been rewritten
C21_Witness ==
    /\ dnode.kind = "Negation"
    /\ dnode.tag = "t"
    /\ dnode.precision = ML_StdLogicVectorFormat(MaxWidth)
    /\ dnode.inputs[1].precision = dnode.precision
    /\ dtree # NullNode

----------------------------------------------------------------------------
(* C22: get_remainder zeroes exactly the k least significant bits of the   *)
(* rounded integer: bits 0..k-1 of the result are 0 and every bit of index *)
(* k and above is the bit of the rounded integer, for every k >= 0.         *)
C22_MaskClearsLowBits ==
    pc = "returned" =>
        \A i \in 0..IntBits - 1 :
            Bit(env.result, i) = IF i < env.k THEN 0 ELSE Bit(env.nearest, i)

----------------------------------------------------------------------------
(* Observers of the scope stack *)

\* the last operation was a close_level with no nested level open
UnmatchedClose == ret.op = "close_level" /\ ret.value = "IndexError"

\* the number of levels opened and not closed, read off the braces written
\* so far: every closed level is balanced inside the buffer that holds it
RECURSIVE BraceBalance(_)
BraceBalance(s) ==
    IF s = 0 THEN 0
    ELSE Count(scopes[s].expanded_code, <<"{">>)
         - Count(scopes[s].expanded_code, <<"}">>) + BraceBalance(s - 1)

OpenLevels == BraceBalance(Len(scopes))

\* the scopes below position i of the stack, outermost first
ChainBelow(i) ==
    [j \in 1..Len(code_list) - i |-> code_list[Len(code_list) + 1 - j]]

(* C23: as long as every close_level was preceded by a matching open_level, *)
(* code_list is never empty, its length is 1 plus the number of open        *)
(* levels, its last element is main_code, and the parent list of each scope *)
(* of the stack is the chain of scopes below it, outermost first.           *)
C23_ScopeStackShape ==
    ~UnmatchedClose =>
        /\ code_list # <<>>
        /\ Len(code_list) = 1 + OpenLevels
        /\ code_list[Len(code_list)] = main_code
        /\ \A i \in 1..Len(code_list) :
              scopes[code_list[i]].parent_tables = ChainBelow(i)

\* two levels are open, one inside the other
C23_Witness ==
    /\ Len(code_list) = 3
    /\ ret.op = "open_level"

----------------------------------------------------------------------------
\* the indentation levels of the stack cl over the heap sc: 0 for the
\* innermost scope, 1 for every other scope of the stack, never negative
LevelsBalanced(sc, cl) ==
    /\ cl # <<>> => sc[cl[1]].tablevel = 0
    /\ \A i \in 2..Len(cl) : sc[cl[i]].tablevel = 1
    /\ \A s \in DOMAIN sc : sc[s].tablevel >= 0

(* C24: indentation is balanced: in every reachable state the innermost     *)
(* scope has indentation level 0 and every other scope of the stack has     *)
(* level 1; open_level raises the parent's level by one and the matching    *)
(* close_level brings it back to its value before the open_level; no level  *)
(* is ever negative.                                                        *)
C24_IndentationBalanced ==
    /\ LevelsBalanced(scopes, code_list)
    /\ [][/\ LevelsBalanced(scopes', code_list')
          /\ Len(code_list') = Len(code_list) + 1 =>
                scopes'[code_list[1]].tablevel = scopes[code_list[1]].tablevel + 1
          /\ (Len(code_list) > 1 /\ Len(code_list') = Len(code_list) - 1) =>
                scopes'[code_list'[1]].tablevel = scopes[code_list'[1]].tablevel - 1
       ]_vars

\* a level opened inside another level has been closed
C24_Witness ==
    /\ ret.op = "close_level"
    /\ ret.value = None
    /\ Len(code_list) = 2

----------------------------------------------------------------------------
(* C25: close_level called with only the main scope on the stack is        *)
(* rejected with an error and leaves the scope stack and the main buffer   *)
(* unchanged, so that NestedCode.get still returns the main scope's text.  *)
C25_UnmatchedCloseRejected ==
    [][(Len(code_list) = 1 /\ ret'.op = "close_level") =>
          /\ ret'.value # None
          /\ code_list' = code_list
          /\ scopes' = scopes
          /\ code_list'[1] = main_code
      ]_vars

----------------------------------------------------------------------------
\* every category table of the symbol table of scope s is empty
NothingDeclared(s) == \A i \in 1..Len(table_list(s)) : table_list(s)[i] = <<>>

(* C30: MultiSymbolTable.is_empty returns True exactly when no name is     *)
(* declared in any of the five category tables and False otherwise,        *)
(* without raising, in every reachable state.                              *)
C30_IsEmptyExact ==
    (ret.op = "is_empty" /\ code_list # <<>>) =>
        ret.value = IF NothingDeclared(code_list[1]) THEN "True" ELSE "False"

----------------------------------------------------------------------------
(* Observers of the resolution order *)

\* the groups of the VHDL table entry of the node
EntryGroups(optree) == vhdl_code_generation_table[optree.kind][optree.specifier]

\* the groups of the entry whose applicability predicate holds on the node
GroupsApplicable(optree) ==
    {i \in 1..Len(EntryGroups(optree)) :
        PredicateHolds(EntryGroups(optree)[i].predicate, optree)}

\* the rules of group i whose matcher accepts the node's formats
RulesMatching(optree, i) ==
    {k \in 1..Len(EntryGroups(optree)[i].rules) :
        MatcherHolds(EntryGroups(optree)[i].rules[k].match, Interface(optree))}

\* the results resolution can give when groups and matchers are iterated in
\* any order: any applicable group can come first, and inside it any
\* matching rule
OutcomesAnyOrder(optree) ==
    IF GroupsApplicable(optree) = {} THEN {NoMatchingRule}
    ELSE UNION {IF RulesMatching(optree, i) = {} THEN {NoMatchingRule}
                ELSE {Resolved(EntryGroups(optree)[i].rules[k].generator) :
                         k \in RulesMatching(optree, i)} :
                   i \in GroupsApplicable(optree)}

(* C26: for every node at most one rule of the VHDL table applies: the      *)
(* applicability predicates of the groups of its entry are mutually         *)
(* exclusive (exactly one of exclude_std_logic and include_std_logic        *)
(* holds), within each group at most one matcher accepts the node's format  *)
(* tuple, and the resolved generator is the same whatever the order in      *)
(* which groups and matchers are iterated.                                  *)
C26_AtMostOneRule ==
    dres.target = "VHDLBackend" =>
        /\ Cardinality(GroupsApplicable(dnode)) <= 1
        /\ PredicateHolds("exclude_std_logic", dnode)
              # PredicateHolds("include_std_logic", dnode)
        /\ \A i \in 1..Len(EntryGroups(dnode)) :
              Cardinality(RulesMatching(dnode, i)) <= 1
        /\ OutcomesAnyOrder(dnode) = {dres.result}

\* an Addition of a bit vector and a single bit, whose entry has two groups
\* and whose group has three matchers, has been resolved
C26_Witness ==
    /\ dres.target = "VHDLBackend"
    /\ dres.result.status = "ok"
    /\ dnode.kind = "Addition"
    /\ Len(dnode.inputs) = 2
    /\ IsStdLogicVector(dnode.precision)
    /\ dnode.inputs[2].precision = ML_StdLogic

----------------------------------------------------------------------------
\* the scheme has left the loop statement, by its end or by a Return
LoopEnded == pc \in {"end", "returned"}

(* C27: every iteration of each of the three reduction loops decrements     *)
(* loop_watchdog, initialised to 5000, and returns -1 as soon as it is      *)
(* negative: whatever the loop conditions evaluate to, the scheme           *)
(* terminates after at most 5001 loop iterations in total.                  *)
C27_WatchdogTerminates ==
    /\ [](pc \in Range(Loops) => env.loop_watchdog = WatchdogInit - env.iterations)
    /\ [](pc = "returned" => env.returned = -1 /\ env.loop_watchdog < 0)
    /\ <>[](LoopEnded /\ env.iterations <= WatchdogInit + 1)

\* the watchdog has fired, after iterations of all three loops
C27_Witness ==
    /\ pc = "returned"
    /\ env.iterations = WatchdogInit + 1

----------------------------------------------------------------------------
\* x or y is NaN, zero or infinite
SpecialPair(vx, vy) ==
    \/ is_nan(vx) \/ is_zero(vx) \/ is_infty(vx)
    \/ is_nan(vy) \/ is_zero(vy) \/ is_infty(vy)

(* C28: for every pair (x, y) where x or y is NaN, zero or infinite, the    *)
(* value returned by the generated remquo scheme equals the value returned  *)
(* by numeric_emulate, in remainder mode and in quotient mode, for every    *)
(* combination of special-value classes of x and y.                         *)
C28_SpecialCasesAgree ==
    (env.mode \in {"QUOTIENT_MODE", "REMAINDER_MODE"} /\ SpecialPair(env.vx, env.vy)) =>
        /\ pc <= Len(mod_scheme)
        /\ pc = 0 => env.returned = numeric_emulate(env.mode, env.vx, env.vy)

\* both arguments are zero and the scheme has returned, in remainder mode
C28_Witness ==
    /\ pc = 0
    /\ env.mode = "REMAINDER_MODE"
    /\ is_zero(env.vx)
    /\ is_zero(env.vy)

----------------------------------------------------------------------------
(* C29: zext_modifier rejects a negative ext_size, returns its input node   *)
(* unchanged when ext_size is 0, and otherwise returns a Concatenation of a *)
(* zero constant of width ext_size (high part) with the input (low part),   *)
(* whose result width is ext_size plus the input's bit width and whose tag  *)
(* is the original node's tag; the Concatenation has a rule in the VHDL     *)
(* table.                                                                   *)
C29_ZeroExtension ==
    (dnode.kind = "ZeroExt" /\ dtree # NullNode) =>
        LET ext_size == dnode.attr
            ext_input == dnode.inputs[1]
        IN  IF ext_size < 0 THEN dtree.kind = "AssertionError"
            ELSE IF ext_size = 0 THEN dtree = ext_input
            ELSE /\ dtree.kind = "Concatenation"
                 /\ Len(dtree.inputs) = 2
                 /\ dtree.inputs[1].kind = "Constant"
                 /\ dtree.inputs[1].attr = 0
                 /\ dtree.inputs[1].precision = ML_StdLogicVectorFormat(ext_size)
                 /\ dtree.inputs[2] = ext_input
                 /\ dtree.precision =
                       ML_StdLogicVectorFormat(ext_size + get_bit_size(ext_input.precision))
                 /\ dtree.tag = dnode.tag
                 /\ get_implementation(vhdl_code_generation_table, dtree).status = "ok"

\* a zero extension by the largest size, tagged "t", of an operand that is
\* itself an extension has been rewritten
C29_Witness ==
    /\ dnode.kind = "ZeroExt"
    /\ dnode.attr = MaxExtSize
    /\ dnode.tag = "t"
    /\ dnode.inputs[1].kind = "ZeroExt"
    /\ dtree.kind = "Concatenation"

====
